---- MODULE Spec2Model ----
(***************************************************************************)
(* A model of the Seven service runtime (osvaldoroques/Seven):             *)
(*   - ThreadPool            libs/common/thread_pool.hpp                   *)
(*   - LRUCache              libs/common/lru_cache.hpp                     *)
(*   - ServiceScheduler      libs/common/service_scheduler.{hpp,cpp}       *)
(*   - ServiceHost           libs/common/service_host{.hpp,_impl.cpp}      *)
(* Each component has its own specification (SpecPool, SpecCache, ...)     *)
(* over one set of variables; a component a specification does not use     *)
(* stays in its initial state.                                             *)
(***************************************************************************)
EXTENDS Integers, Sequences, FiniteSets, TLC

VARIABLES
    \* ---- ThreadPool (thread_pool.hpp:137-141) ----
    done,       \* std::atomic<bool> done
    tasks,      \* std::queue<std::function<void()>> tasks
    mtx,        \* std::mutex mtx: the thread that holds it, or Free
    wpc,        \* position of every worker thread in worker()
    wtask,      \* the task a worker has moved out of the queue
    cpc,        \* position of every client thread in submit()
    accepted,   \* what submit() returned to the client
    spc,        \* position of the thread that calls shutdown()
    scalls,     \* number of shutdown() calls made so far
    execs,      \* per plain task: number of completed runs of task()
    tres,       \* per plain task: how its last run ended (returned / threw)
    \* ---- LRUCache (lru_cache.hpp:30-44) ----
    cache_list, \* std::list<std::pair<Key, CacheEntry>> cache_list_ (front = MRU)
    cache_map,  \* std::unordered_map<Key, ListIterator> cache_map_: the keys it indexes
    max_size,   \* size_t max_size_
    default_ttl,\* std::chrono::milliseconds default_ttl_
    hits,       \* std::atomic<size_t> hits_
    misses,     \* std::atomic<size_t> misses_
    evictions,  \* std::atomic<size_t> evictions_
    expirations,\* std::atomic<size_t> expirations_
    cop,        \* the last operation called on the cache, with what it returned
    cops,       \* number of operations called on the cache so far
    \* ---- the process ----
    cnow,       \* std::chrono::steady_clock::now()
    crashed,    \* the process died (a freed or null object was dereferenced)
    \* ---- ServiceScheduler (service_scheduler.hpp:121-134) ----
    stasks,     \* std::vector<std::unique_ptr<ScheduledTask>> tasks_
    srunning,   \* std::atomic<bool> running_
    dpc,        \* position of scheduler_thread_ in scheduler_loop()
    dready,     \* ready_tasks: the slots of tasks_ the scan found ready
    dwake,      \* the time the dispatcher's wait_for ends
    sinfo,      \* per task id: its mode and how often it was submitted, invoked, failed
    \* ---- ServiceHost (service_host.hpp:571-609) ----
    hrunning,   \* std::atomic<bool> running_
    hpc,        \* position of the service's main thread
    perm_running, \* std::atomic<bool> permanent_tasks_running_
    perm_id,    \* ServiceScheduler::TaskId permanent_task_id_
    watch,      \* the configuration watcher thread of config_
    conn,       \* natsConnection* conn_
    hsig,       \* the signal handler has run
    hsteps,     \* the steps of shutdown() executed so far, in order
    \* ---- ServiceHost: publishing and subscriptions ----
    tracing_enabled, \* bool tracing_enabled_
    bimpl,      \* PublishBroadcastFunc publish_broadcast_impl_
    pimpl,      \* PublishP2PFunc publish_point_to_point_impl_
    tpc,        \* position of the thread that toggles tracing
    tgoal,      \* the toggle that thread is executing
    tlast,      \* the last toggle that returned
    tstarted,   \* number of toggles called so far
    ppc,        \* position of every publishing thread
    pcall,      \* the publish call every publishing thread is in
    issued,     \* number of publish calls made so far
    ran,        \* per implementation: number of times its body was executed
    reg,        \* per service and message type: the routing it registered
    sent,       \* per message <<kind, type, target>>: number of times it was handed to the bus
    recv,       \* per service and message type: number of receive_message() calls
    \* ---- the threads of the service that call into the components ----
    xpc,        \* position of the thread that calls ServiceScheduler::stop()
    xcalls,     \* number of stop() calls made so far
    xres,       \* what the last stop() call did
    \* ---- ServiceHost: handlers and received messages ----
    handlers,   \* handlers_: the registration whose wrapper is stored under the type (0: none)
    subs,       \* number of bus subscriptions on the subject of the type
    regs,       \* number of register_message() calls made so far
    rcall,      \* per receive_message() call: its position, payload and what became of it
    published,  \* the messages published on the subject so far
    \* ---- ServiceHost: threads that call shutdown() ----
    gpc,        \* position of every thread that calls shutdown()
    gcalls,     \* number of shutdown() calls made so far
    js,         \* jsCtx* js_
    teardowns,  \* per teardown step: number of times it was performed
    \* ---- ServiceHost: the thread that calls shutdown_with_timeout() ----
    ypc,        \* its position
    ytimeout,   \* the timeout it was called with
    ystart,     \* start_time
    yres,       \* how the call ended
    \* ---- ServiceHost: startup ----
    ucall,      \* the startup function that was called
    ures,       \* how the startup call ended
    \* ---- ServiceHost: threads that call Start/StopPermanentTasks() ----
    vpc,        \* position of every such thread
    vop,        \* the call every such thread is in
    vcalls,     \* number of such calls made so far
    \* ---- ServiceCache (service_cache.hpp:165-168) ----
    caches,     \* caches_: per name, the cache instance registered under it
    created,    \* number of cache instances constructed so far
    clast,      \* the last create_cache() call and what it returned
    clook,      \* the last get_cache_instance() call, the types registered
                \* under its name at the call, and what it returned
    ci,         \* a CacheInstance the registry handed out: its seven::lru_cache,
                \* its own counters, and how many entries left it and why
    ccalls,     \* number of create_cache() calls made so far
    \* ---- ServiceHost: threads that call enable_/disable_tracing() ----
    tog,        \* per thread: the toggle it is in and the store it is at
    \* ---- ServiceScheduler: cancel_task() calls and what erase() leaves ----
    kcall,      \* the last cancel_task() call, what it returned, the number of
                \* calls and the ids whose cancel_task() returned true
    sresidue    \* per position of tasks_' storage past its size: the task the
                \* destroyed unique_ptr there still points to (0: null)

poolVars == <<done, tasks, mtx, wpc, wtask, cpc, accepted, spc, scalls, execs, tres>>

cacheVars == <<cache_list, cache_map, max_size, default_ttl, hits, misses,
               evictions, expirations, cop, cops>>

procVars == <<cnow, crashed>>

schedVars == <<stasks, srunning, dpc, dready, dwake, sinfo>>

hostVars == <<hrunning, hpc, perm_running, perm_id, watch, conn, hsig, hsteps>>

pubVars == <<tracing_enabled, bimpl, pimpl, tpc, tgoal, tlast, tstarted,
             ppc, pcall, issued, ran, reg, sent, recv>>

stopVars == <<xpc, xcalls, xres>>

recvVars == <<handlers, subs, regs, rcall, published>>

downVars == <<gpc, gcalls, js, teardowns>>

timeoutVars == <<ypc, ytimeout, ystart, yres>>

startVars == <<ucall, ures>>

permVars == <<vpc, vop, vcalls>>

registryVars == <<caches, created, clast, clook, ccalls, ci>>

toggleVars == <<tog>>

cancelVars == <<kcall, sresidue>>

callVars == <<stopVars, recvVars, downVars, timeoutVars, startVars, permVars, registryVars, toggleVars, cancelVars>>

nonPool == <<cacheVars, procVars, schedVars, hostVars, pubVars, callVars>>

nonCache == <<poolVars, schedVars, hostVars, pubVars, callVars>>

vars == <<poolVars, cacheVars, procVars, schedVars, hostVars, pubVars, callVars>>

-----------------------------------------------------------------------------
(* Bounds of the model *)

NumWorkers == 2
NumTasks == 3
MaxShutdownCalls == 2

NumKeys == 4
MaxCapacity == 3
MaxTime == 1
MaxCacheOps == 5
NumSleepKeys == 2
MaxSleep == 3

NumSchedTasks == 2
MaxSchedTime == 1
MaxDispatches == 2
NumCalledTasks == 1
MaxCancels == 2
MaxStopCalls == 2

NumReceives == 2
MaxRegistrations == 2
NumBusMessages == 1

NumShutdownCallers == 2
MaxHostShutdowns == 3
MaxTimeout == 2

NumPermanentCallers == 2
MaxPermanentCalls == 3

NumCacheNames == 2
NumInstanceKeys == 3
InstanceCapacity == 2
MaxInstanceOps == 4
MaxInstanceTime == 2
MaxCacheCreates == 3

NumServices == 2
NumPublishers == 2
MaxPublishes == 2
MaxToggles == 2
NumTogglers == 2

Workers == 1..NumWorkers
PlainTasks == 1..NumTasks

-----------------------------------------------------------------------------
(* ThreadPool *)

Free == [kind |-> "none", id |-> 0]
WorkerThread(w) == [kind |-> "worker", id |-> w]
ClientThread(t) == [kind |-> "client", id |-> t]

Plain(t) == [kind |-> "plain", id |-> t]
NoTask == [kind |-> "none", id |-> 0]

\* cv.notify_all(): every thread blocked in cv.wait is made runnable
NotifyAll(pc) == [w \in Workers |-> IF pc[w] = "waiting" THEN "woken" ELSE pc[w]]

\* cv.notify_one(): one of the threads blocked in cv.wait (if any) is made runnable
NotifyOne(pc) ==
    IF \E w \in Workers : pc[w] = "waiting"
    THEN {[pc EXCEPT ![w] = "woken"] : w \in {x \in Workers : pc[x] = "waiting"}}
    ELSE {pc}

\* a step of a thread of the live process that touches the pool only
PoolStep == ~crashed /\ UNCHANGED nonPool

\* the wait predicate of the worker: done || !tasks.empty()
WaitPredicate == done \/ tasks # <<>>

\* a worker that leaves as soon as done is set, whatever is still queued
WorkerExitTestDoneOnly == done

\* the exit test of the worker: done && tasks.empty()
WorkerExitTest == done /\ tasks = <<>>

\* worker(): std::unique_lock<std::mutex> lk(mtx)
W_Lock(w) ==
    /\ wpc[w] = "start"
    /\ mtx = Free
    /\ mtx' = WorkerThread(w)
    /\ wpc' = [wpc EXCEPT ![w] = "pred"]
    /\ PoolStep
    /\ UNCHANGED <<done, tasks, wtask, cpc, accepted, spc, scalls, execs, tres>>

\* worker(): cv.wait(lk, pred) evaluates the predicate with the lock held
W_Pred(w) ==
    /\ wpc[w] = "pred"
    /\ wpc' = [wpc EXCEPT ![w] = IF WaitPredicate THEN "decide" ELSE "block"]
    /\ PoolStep
    /\ UNCHANGED <<done, tasks, mtx, wtask, cpc, accepted, spc, scalls, execs, tres>>

\* worker(): the predicate was false: cv.wait releases the lock and blocks
W_Block(w) ==
    /\ wpc[w] = "block"
    /\ mtx' = Free
    /\ wpc' = [wpc EXCEPT ![w] = "waiting"]
    /\ PoolStep
    /\ UNCHANGED <<done, tasks, wtask, cpc, accepted, spc, scalls, execs, tres>>

\* a condition variable may wake without a notification (never guaranteed)
W_Spurious(w) ==
    /\ wpc[w] = "waiting"
    /\ wpc' = [wpc EXCEPT ![w] = "woken"]
    /\ PoolStep
    /\ UNCHANGED <<done, tasks, mtx, wtask, cpc, accepted, spc, scalls, execs, tres>>

\* worker(): a woken waiter takes the lock again and re-evaluates the predicate
W_Reacquire(w) ==
    /\ wpc[w] = "woken"
    /\ mtx = Free
    /\ mtx' = WorkerThread(w)
    /\ wpc' = [wpc EXCEPT ![w] = "pred"]
    /\ PoolStep
    /\ UNCHANGED <<done, tasks, wtask, cpc, accepted, spc, scalls, execs, tres>>

\* worker(): if (done && tasks.empty()) break; else move the front task out
W_Decide(w) ==
    /\ wpc[w] = "decide"
    /\ IF WorkerExitTest
       THEN /\ wpc' = [wpc EXCEPT ![w] = "exited"]
            /\ UNCHANGED <<tasks, wtask>>
       ELSE /\ tasks # <<>>
            /\ wtask' = [wtask EXCEPT ![w] = Head(tasks)]
            /\ tasks' = Tail(tasks)
            /\ wpc' = [wpc EXCEPT ![w] = "run"]
    /\ mtx' = Free
    /\ PoolStep
    /\ UNCHANGED <<done, cpc, accepted, spc, scalls, execs, tres>>

\* a worker without the catch: the exception leaves worker() and ends the thread
AfterTaskUncaught(outcome) == IF outcome = "threw" THEN "exited" ELSE "start"

\* worker(): where the thread goes after task(): catch (...) {} swallows
\* whatever task() threw and the while (true) loop starts over
AfterTask(outcome) == "start"

\* worker(): try { task(); } catch (...) {} for a plain task; the worker loops
W_Finish(w) ==
    /\ wpc[w] = "run"
    /\ wtask[w].kind = "plain"
    /\ \E outcome \in {"returned", "threw"} :
          /\ tres' = [tres EXCEPT ![wtask[w].id] = outcome]
          /\ wpc' = [wpc EXCEPT ![w] = AfterTask(outcome)]
    /\ execs' = [execs EXCEPT ![wtask[w].id] = @ + 1]
    /\ wtask' = [wtask EXCEPT ![w] = NoTask]
    /\ PoolStep
    /\ UNCHANGED <<done, tasks, mtx, cpc, accepted, spc, scalls>>

\* shutdown(): if (done.exchange(true)) return;
ShutdownEnter ==
    /\ spc \in {"idle", "returned"}
    /\ scalls' = scalls + 1
    /\ IF done
       THEN spc' = "returned"
       ELSE spc' = "notify"
    /\ done' = TRUE
    /\ PoolStep
    /\ UNCHANGED <<tasks, mtx, wpc, wtask, cpc, accepted, execs, tres>>

\* shutdown(): cv.notify_all()
S_Notify ==
    /\ spc = "notify"
    /\ wpc' = NotifyAll(wpc)
    /\ spc' = "join"
    /\ PoolStep
    /\ UNCHANGED <<done, tasks, mtx, wtask, cpc, accepted, scalls, execs, tres>>

\* shutdown(): for (auto &t : workers) t.join(): returns when every worker has exited
S_Join ==
    /\ spc = "join"
    /\ \A w \in Workers : wpc[w] = "exited"
    /\ spc' = "returned"
    /\ PoolStep
    /\ UNCHANGED <<done, tasks, mtx, wpc, wtask, cpc, accepted, scalls, execs, tres>>

\* a user thread (or the destructor) calls shutdown()
S_Call ==
    /\ scalls < MaxShutdownCalls
    /\ ShutdownEnter

\* submit(): std::unique_lock<std::mutex> lk(mtx)
SubmitLock(thread) ==
    /\ mtx = Free
    /\ mtx' = thread

\* a submit that never looks at the done flag
SubmitRefusesNever == FALSE

\* submit(): if (done) return false;   (TRUE: the task is refused)
SubmitRefuses == done

\* a submit that puts the task in front of the queue
SubmitPushFront(handle) ==
    /\ tasks' = <<handle>> \o tasks
    /\ wpc' \in NotifyOne(wpc)
    /\ mtx' = Free

\* submit(): tasks.push(task); cv.notify_one(); return true;
SubmitPush(handle) ==
    /\ tasks' = Append(tasks, handle)
    /\ wpc' \in NotifyOne(wpc)
    /\ mtx' = Free

C_Lock(t) ==
    /\ cpc[t] = "idle"
    /\ SubmitLock(ClientThread(t))
    /\ cpc' = [cpc EXCEPT ![t] = "locked"]
    /\ PoolStep
    /\ UNCHANGED <<done, tasks, wpc, wtask, accepted, spc, scalls, execs, tres>>

C_Check(t) ==
    /\ cpc[t] = "locked"
    /\ IF SubmitRefuses
       THEN /\ mtx' = Free
            /\ accepted' = [accepted EXCEPT ![t] = "false"]
            /\ cpc' = [cpc EXCEPT ![t] = "returned"]
       ELSE /\ cpc' = [cpc EXCEPT ![t] = "push"]
            /\ UNCHANGED <<mtx, accepted>>
    /\ PoolStep
    /\ UNCHANGED <<done, tasks, wpc, wtask, spc, scalls, execs, tres>>

C_Push(t) ==
    /\ cpc[t] = "push"
    /\ SubmitPush(Plain(t))
    /\ accepted' = [accepted EXCEPT ![t] = "true"]
    /\ cpc' = [cpc EXCEPT ![t] = "returned"]
    /\ PoolStep
    /\ UNCHANGED <<done, wtask, spc, scalls, execs, tres>>

InitPool ==
    /\ done = FALSE
    /\ tasks = <<>>
    /\ mtx = Free
    /\ wpc = [w \in Workers |-> "start"]
    /\ wtask = [w \in Workers |-> NoTask]
    /\ cpc = [t \in PlainTasks |-> "idle"]
    /\ accepted = [t \in PlainTasks |-> "none"]
    /\ spc = "idle"
    /\ scalls = 0
    /\ execs = [t \in PlainTasks |-> 0]
    /\ tres = [t \in PlainTasks |-> "none"]

\* one thread submits the tasks one after the other: it calls submit() for
\* task t when its submit() calls for the tasks before t have returned
Q_Lock(t) ==
    /\ \A u \in PlainTasks : u < t => cpc[u] = "returned"
    /\ C_Lock(t)

\* a worker slot of a pool that was built with fewer threads: there is no
\* such thread, it takes no step and join() does not wait for it
Absent == [kind |-> "absent", id |-> 0]

\* ThreadPool(n), 1 <= n <= NumWorkers
PoolSize == Cardinality({w \in Workers : wtask[w] # Absent})

InitPoolSized ==
    /\ done = FALSE
    /\ tasks = <<>>
    /\ mtx = Free
    /\ \E n \in 1..NumWorkers :
          /\ wpc = [w \in Workers |-> IF w <= n THEN "start" ELSE "exited"]
          /\ wtask = [w \in Workers |-> IF w <= n THEN NoTask ELSE Absent]
    /\ cpc = [t \in PlainTasks |-> "idle"]
    /\ accepted = [t \in PlainTasks |-> "none"]
    /\ spc = "idle"
    /\ scalls = 0
    /\ execs = [t \in PlainTasks |-> 0]
    /\ tres = [t \in PlainTasks |-> "none"]

\* a pool that one thread submits to
NextPoolOrdered ==
    \/ \E w \in Workers : W_Lock(w)
    \/ \E w \in Workers : W_Pred(w)
    \/ \E w \in Workers : W_Block(w)
    \/ \E w \in Workers : W_Spurious(w)
    \/ \E w \in Workers : W_Reacquire(w)
    \/ \E w \in Workers : W_Decide(w)
    \/ \E w \in Workers : W_Finish(w)
    \/ S_Call
    \/ S_Notify
    \/ S_Join
    \/ \E t \in PlainTasks : Q_Lock(t)
    \/ \E t \in PlainTasks : C_Check(t)
    \/ \E t \in PlainTasks : C_Push(t)

\* the steps a running pool is guaranteed to take (everything but a spurious wakeup)
PoolProgress ==
    \/ \E w \in Workers : W_Lock(w)
    \/ \E w \in Workers : W_Pred(w)
    \/ \E w \in Workers : W_Block(w)
    \/ \E w \in Workers : W_Reacquire(w)
    \/ \E w \in Workers : W_Decide(w)
    \/ \E w \in Workers : W_Finish(w)
    \/ S_Notify
    \/ S_Join
    \/ \E t \in PlainTasks : C_Check(t)
    \/ \E t \in PlainTasks : C_Push(t)

NextPool ==
    \/ PoolProgress
    \/ \E w \in Workers : W_Spurious(w)
    \/ S_Call
    \/ \E t \in PlainTasks : C_Lock(t)

\* the steps of worker w that need nothing but the processor
WorkerRuns(w) == W_Pred(w) \/ W_Block(w) \/ W_Decide(w) \/ W_Finish(w)

\* the steps of worker w that take mtx
WorkerLocks(w) == W_Lock(w) \/ W_Reacquire(w)

\* the steps of a client inside submit(), with mtx held
ClientRuns(t) == C_Check(t) \/ C_Push(t)

\* the operating system schedules every thread: a client inside submit()
\* reaches its return, a worker goes on, and a worker that keeps asking for
\* mtx gets it
PoolFairness ==
    /\ \A t \in PlainTasks : WF_vars(ClientRuns(t))
    /\ \A w \in Workers : WF_vars(WorkerRuns(w)) /\ SF_vars(WorkerLocks(w))



-----------------------------------------------------------------------------
(* LRUCache *)
\* Every public operation takes mutex_ in its first statement and holds it to
\* its return, so an operation is one step and threads interleave only
\* between operations.  CacheEntry::access_time is written and never read; it
\* is left out.

Keys == 1..NumKeys
SleepKeys == 1..NumSleepKeys
Values == {"a", "b"}

\* std::chrono::milliseconds::max(): the "no TTL" argument of put() and the constructor
MillisMax == 1000
\* std::chrono::steady_clock::time_point::max(): the expiry of an entry that never expires
TimePointMax == 2000

TTLs == {1, MillisMax}

CacheEntry(k, v, e) == [key |-> k, value |-> v, expiry |-> e]

ListKeys(list) == {list[i].key : i \in 1..Len(list)}

\* the list node an iterator stored under key k refers to (0: a node that is gone)
NodeOf(list, k) ==
    IF \E i \in 1..Len(list) : list[i].key = k
    THEN CHOOSE i \in 1..Len(list) : list[i].key = k
    ELSE 0

\* cache_list_.erase(it)
EraseAt(list, i) == SubSeq(list, 1, i - 1) \o SubSeq(list, i + 1, Len(list))

\* a move_to_front() that leaves the node where it is
move_to_front_nowhere(list, i) == list

\* cache_list_.splice(cache_list_.begin(), cache_list_, it)
move_to_front(list, i) == <<list[i]>> \o EraseAt(list, i)

\* the cache as the private helpers see and change it
CacheState(list, map, ev, ex, dead) ==
    [list |-> list, map |-> map, evictions |-> ev, expirations |-> ex, crashed |-> dead]

\* The loop of cleanup_expired().  `base` is it.base() as a position in the
\* list: *it is node base-1, rend() has base 1 and rbegin() has base Len+1.
\* On an expired node, --it moves the base one node towards end(); from end()
\* itself the circular list gives the first node, so after the tail is erased
\* the iterator equals rend() and the loop stops.  When the erased node is
\* that first node (a list of one), the iterator dangles and the next
\* comparison reads freed memory: the process dies.
RECURSIVE cleanup_walk(_, _, _)
cleanup_walk(c, base, now) ==
    IF base = 1 THEN c
    ELSE LET e == base - 1 IN
         IF c.list[e].expiry <= now
         THEN LET next == IF base = Len(c.list) + 1 THEN 1 ELSE base + 1
                  c2 == [c EXCEPT !.map = c.map \ {c.list[e].key},
                                  !.list = EraseAt(c.list, e),
                                  !.expirations = c.expirations + 1]
              IN IF next = e
                 THEN [c2 EXCEPT !.crashed = TRUE]
                 ELSE cleanup_walk(c2, IF next > e THEN next - 1 ELSE next, now)
         ELSE cleanup_walk(c, base - 1, now)

cleanup_expired(c, now) == cleanup_walk(c, Len(c.list) + 1, now)

\* evict_lru() that forgets cache_map_.erase(last->first)
evict_lru_list_only(c) ==
    IF c.list # <<>>
    THEN [c EXCEPT !.list = SubSeq(c.list, 1, Len(c.list) - 1),
                   !.evictions = c.evictions + 1]
    ELSE c

evict_lru(c) ==
    IF c.list # <<>>
    THEN [c EXCEPT !.map = c.map \ {c.list[Len(c.list)].key},
                   !.list = SubSeq(c.list, 1, Len(c.list) - 1),
                   !.evictions = c.evictions + 1]
    ELSE c

Here == CacheState(cache_list, cache_map, evictions, expirations, crashed)

\* write the state the helpers left back to the object
Install(c) ==
    /\ cache_list' = c.list
    /\ cache_map' = c.map
    /\ evictions' = c.evictions
    /\ expirations' = c.expirations
    /\ crashed' = c.crashed

\* an operation is called by some thread of a live process
CacheCall == ~crashed /\ cops < MaxCacheOps /\ cops' = cops + 1

Returned(op, k, r) == [op |-> op, key |-> k, res |-> r]

\* the expiry put() computes from its ttl argument
PutExpiry(ttl, now) ==
    IF ttl = MillisMax
    THEN TimePointMax
    ELSE now + (IF ttl = MillisMax THEN default_ttl ELSE ttl)

\* a stored iterator whose node is gone is dereferenced
Dangling == Install([Here EXCEPT !.crashed = TRUE])

\* put(key, value, ttl)
CachePut(k, v, ttl) ==
    /\ CacheCall
    /\ LET entry == CacheEntry(k, v, PutExpiry(ttl, cnow))
           i == NodeOf(cache_list, k)
           full == Len(cache_list) >= max_size
           c1 == IF full THEN cleanup_expired(Here, cnow) ELSE Here
           c2 == IF full /\ ~c1.crashed /\ Len(c1.list) >= max_size
                 THEN evict_lru(c1) ELSE c1
       IN IF k \in cache_map
          THEN IF i = 0 THEN Dangling
               ELSE Install([Here EXCEPT
                        !.list = move_to_front([cache_list EXCEPT ![i] = entry], i)])
          ELSE IF c2.crashed THEN Install(c2)
               ELSE Install([c2 EXCEPT !.list = <<entry>> \o c2.list,
                                       !.map = c2.map \cup {k}])
    /\ cop' = Returned("put", k, "void")
    /\ UNCHANGED <<max_size, default_ttl, hits, misses, cnow>>
    /\ UNCHANGED nonCache

\* a get() that never looks at expiry_time
GetExpiredNever(entry, now) == FALSE

\* get(): if (list_it->second.expiry_time <= now)
GetExpired(entry, now) == entry.expiry <= now

\* get(key)
CacheGet(k) ==
    /\ CacheCall
    /\ LET i == NodeOf(cache_list, k) IN
       IF k \notin cache_map
       THEN /\ misses' = misses + 1
            /\ cop' = Returned("get", k, "nullopt")
            /\ UNCHANGED <<cache_list, cache_map, hits, evictions, expirations, crashed>>
       ELSE IF i = 0
       THEN /\ Dangling
            /\ cop' = Returned("get", k, "nullopt")
            /\ UNCHANGED <<hits, misses>>
       ELSE IF GetExpired(cache_list[i], cnow)
       THEN /\ cache_map' = cache_map \ {k}
            /\ cache_list' = EraseAt(cache_list, i)
            /\ expirations' = expirations + 1
            /\ misses' = misses + 1
            /\ cop' = Returned("get", k, "nullopt")
            /\ UNCHANGED <<hits, evictions, crashed>>
       ELSE /\ cache_list' = move_to_front(cache_list, i)
            /\ hits' = hits + 1
            /\ cop' = Returned("get", k, cache_list[i].value)
            /\ UNCHANGED <<cache_map, misses, evictions, expirations, crashed>>
    /\ UNCHANGED <<max_size, default_ttl, cnow>>
    /\ UNCHANGED nonCache

\* remove(key)
CacheRemove(k) ==
    /\ CacheCall
    /\ LET i == NodeOf(cache_list, k) IN
       IF k \notin cache_map
       THEN /\ cop' = Returned("remove", k, FALSE)
            /\ UNCHANGED <<cache_list, cache_map, evictions, expirations, crashed>>
       ELSE IF i = 0
       THEN /\ Dangling
            /\ cop' = Returned("remove", k, FALSE)
       ELSE /\ cache_list' = EraseAt(cache_list, i)
            /\ cache_map' = cache_map \ {k}
            /\ cop' = Returned("remove", k, TRUE)
            /\ UNCHANGED <<evictions, expirations, crashed>>
    /\ UNCHANGED <<max_size, default_ttl, hits, misses, cnow>>
    /\ UNCHANGED nonCache

\* clear()
CacheClear ==
    /\ CacheCall
    /\ cache_list' = <<>>
    /\ cache_map' = {}
    /\ cop' = Returned("clear", 0, "void")
    /\ UNCHANGED <<max_size, default_ttl, hits, misses, evictions, expirations, cnow, crashed>>
    /\ UNCHANGED nonCache

\* a resize() that evicts once instead of looping
resize_loop_once(c, n) == IF Len(c.list) > n THEN evict_lru(c) ELSE c

\* the loop of resize(): while (cache_list_.size() > max_size_) evict_lru();
RECURSIVE resize_loop(_, _)
resize_loop(c, n) == IF Len(c.list) > n THEN resize_loop(evict_lru(c), n) ELSE c

\* resize(new_max_size)
CacheResize(n) ==
    /\ CacheCall
    /\ IF n = 0
       THEN /\ cop' = Returned("resize", n, "invalid_argument")
            /\ UNCHANGED <<cache_list, cache_map, max_size, evictions, expirations, crashed>>
       ELSE /\ max_size' = n
            /\ Install(resize_loop(Here, n))
            /\ cop' = Returned("resize", n, "void")
    /\ UNCHANGED <<default_ttl, hits, misses, cnow>>
    /\ UNCHANGED nonCache

\* cleanup()
CacheCleanup ==
    /\ CacheCall
    /\ LET c == cleanup_expired(Here, cnow) IN
        /\ Install(c)
        /\ cop' = Returned("cleanup", 0, Len(cache_list) - Len(c.list))
    /\ UNCHANGED <<max_size, default_ttl, hits, misses, cnow>>
    /\ UNCHANGED nonCache

\* a contains() written as a get(): it counts and reorders
CacheContainsByGet(k) ==
    /\ CacheCall
    /\ LET i == NodeOf(cache_list, k) IN
       IF k \notin cache_map \/ i = 0
       THEN /\ misses' = misses + 1
            /\ cop' = Returned("contains", k, FALSE)
            /\ UNCHANGED <<cache_list, hits>>
       ELSE /\ cache_list' = move_to_front(cache_list, i)
            /\ hits' = hits + 1
            /\ cop' = Returned("contains", k, cache_list[i].expiry > cnow)
            /\ UNCHANGED misses
    /\ UNCHANGED <<cache_map, max_size, default_ttl, evictions, expirations, cnow, crashed>>
    /\ UNCHANGED nonCache

\* contains(key): false when the key is not indexed, else
\* it->second->second.expiry_time > now; a const method
CacheContains(k) ==
    /\ CacheCall
    /\ LET i == NodeOf(cache_list, k) IN
       IF k \notin cache_map
       THEN /\ cop' = Returned("contains", k, FALSE)
            /\ UNCHANGED <<cache_list, cache_map, evictions, expirations, crashed>>
       ELSE IF i = 0
       THEN /\ Dangling
            /\ cop' = Returned("contains", k, FALSE)
       ELSE /\ cop' = Returned("contains", k, cache_list[i].expiry > cnow)
            /\ UNCHANGED <<cache_list, cache_map, evictions, expirations, crashed>>
    /\ UNCHANGED <<max_size, default_ttl, hits, misses, cnow>>
    /\ UNCHANGED nonCache

\* size()
size == Len(cache_list)

\* get_keys()
get_keys == [i \in 1..Len(cache_list) |-> cache_list[i].key]

\* the steady clock advances, up to a last instant
CacheTickUntil(last) ==
    /\ ~crashed
    /\ cnow < last
    /\ cnow' = cnow + 1
    /\ UNCHANGED <<cache_list, cache_map, max_size, default_ttl, hits, misses,
                   evictions, expirations, crashed, cop, cops>>
    /\ UNCHANGED nonCache

CacheTick == CacheTickUntil(MaxTime)

\* a thread sleeps past the expiry of what it has put
CacheSleep == CacheTickUntil(MaxSleep)

\* LRUCache(MaxCapacity, 1ms): the cache is built with a finite default TTL
\* (max_size 0 throws and leaves no object); other capacities come from resize()
InitCache ==
    /\ cache_list = <<>>
    /\ cache_map = {}
    /\ max_size = MaxCapacity
    /\ default_ttl = 1
    /\ hits = 0
    /\ misses = 0
    /\ evictions = 0
    /\ expirations = 0
    /\ cop = Returned("none", 0, "none")
    /\ cops = 0

\* the cache is built and never used
IdleCache == InitCache

NextCache ==
    \/ \E k \in Keys, v \in Values, ttl \in TTLs : CachePut(k, v, ttl)
    \/ \E k \in Keys : CacheGet(k)
    \/ \E k \in Keys : CacheRemove(k)
    \/ CacheClear
    \/ \E n \in 0..MaxCapacity : CacheResize(n)
    \/ CacheCleanup
    \/ CacheTick

\* a cache of few keys that is used with TTLs while time goes by
NextCacheTTL ==
    \/ \E k \in SleepKeys, v \in Values, ttl \in TTLs : CachePut(k, v, ttl)
    \/ \E k \in SleepKeys : CacheGet(k)
    \/ CacheCleanup
    \/ CacheSleep

\* a cache of few keys on which every operation is called while time goes by
NextCacheStats ==
    \/ \E k \in SleepKeys, v \in Values, ttl \in TTLs : CachePut(k, v, ttl)
    \/ \E k \in SleepKeys : CacheGet(k)
    \/ \E k \in SleepKeys : CacheRemove(k)
    \/ \E k \in SleepKeys : CacheContains(k)
    \/ \E n \in 1..MaxCapacity : CacheResize(n)
    \/ CacheCleanup
    \/ CacheSleep

-----------------------------------------------------------------------------
(* ServiceScheduler *)
\* The dispatcher (scheduler_thread_) submits a closure per ready task to the
\* ThreadPool above; a worker runs it.  The closure captures `task` by
\* reference: a reference to the element of tasks_ (a unique_ptr) the scan
\* found the task in, that is, to a slot of the vector and not to the task.

TaskIds == 1..NumSchedTasks
Modes == {"ONE_TIME", "RECURRING"}
Intervals == {0, 1}

\* std::chrono::minutes(1) of get_next_wake_time(), in ticks of the model's clock
OneMinute == 60

\* a step of a thread of the live process that touches the scheduler and the pool only
SchedStep == ~crashed /\ UNCHANGED <<cacheVars, procVars, hostVars, pubVars, callVars>>

DispatcherThread == [kind |-> "dispatcher", id |-> 0]

\* the closure execute_task() submits for the task in slot s of tasks_
Closure(s) == [kind |-> "closure", id |-> s]

\* ScheduledTask(id, cfg, func, interval), constructed at time now
ScheduledTask(id, mode, interval, now) ==
    [id |-> id, mode |-> mode, enabled |-> TRUE, interval |-> interval,
     next_run |-> now + interval,  \* calculate_next_run()
     running |-> FALSE, executions |-> 0, failures |-> 0,
     cond |-> "none"]              \* config.condition is empty

\* what the condition() of a conditional task of the model returns, always
Conditions == {"true", "false"}

\* the task schedule_conditional(name, check_interval, condition, task) builds
ConditionalTask(id, check_interval, cond, now) ==
    [ScheduledTask(id, "CONDITIONAL", check_interval, now) EXCEPT !.cond = cond]

\* ScheduledTask::is_ready()
is_ready(t) == t.enabled /\ cnow >= t.next_run /\ ~t.running

\* a should_execute() that never calls the condition
should_execute_unconditional(t) == is_ready(t)

\* ScheduledTask::should_execute()
should_execute(t) ==
    IF ~is_ready(t) THEN FALSE
    ELSE IF t.cond # "none" THEN t.cond = "true"
    ELSE TRUE

\* the slots of tasks_ in the order of the vector
Slots == 1..Len(stasks)

RECURSIVE ReadySlots(_)
ReadySlots(s) ==
    IF s > Len(stasks) THEN <<>>
    ELSE (IF should_execute(stasks[s]) THEN <<s>> ELSE <<>>) \o ReadySlots(s + 1)

\* the predicate of cleanup_completed_tasks()
Completed(t) == t.mode = "ONE_TIME" /\ t.executions > 0 /\ ~t.running

\* the set of numbers S has a least element
Min(S) == CHOOSE x \in S : \A y \in S : x <= y

\* get_next_wake_time() as the point in time the wait ends
next_wake_time ==
    Min({cnow + OneMinute} \cup {stasks[s].next_run : s \in {x \in Slots : stasks[x].enabled}})

Note(id, field) == [sinfo EXCEPT ![id][field] = @ + 1]

\* start()
D_Start ==
    /\ ~srunning
    /\ dpc = "off"
    /\ srunning' = TRUE
    /\ dpc' = "top"
    /\ UNCHANGED <<stasks, dready, dwake, sinfo>>
    /\ UNCHANGED poolVars
    /\ SchedStep

\* while (running_.load())
D_Top ==
    /\ dpc = "top"
    /\ dpc' = IF srunning THEN "scan" ELSE "stopped"
    /\ UNCHANGED <<stasks, srunning, dready, dwake, sinfo>>
    /\ UNCHANGED poolVars
    /\ SchedStep

\* the scan for ready tasks under tasks_mutex_
D_Scan ==
    /\ dpc = "scan"
    /\ dready' = ReadySlots(1)
    /\ dpc' = "exec"
    /\ UNCHANGED <<stasks, srunning, dwake, sinfo>>
    /\ UNCHANGED poolVars
    /\ SchedStep

\* for (auto* task_ptr : ready_tasks) execute_task(*task_ptr): up to running.store(true)
D_Exec ==
    /\ dpc = "exec"
    /\ IF dready = <<>>
       THEN /\ dpc' = "cleanup"
            /\ UNCHANGED <<stasks, dready>>
       ELSE LET s == Head(dready) IN
            /\ s <= Len(stasks)
            /\ IF ~stasks[s].enabled \/ stasks[s].running
               THEN /\ dready' = Tail(dready)
                    /\ UNCHANGED <<stasks, dpc>>
               ELSE /\ sinfo[stasks[s].id].submitted < MaxDispatches
                    /\ stasks' = [stasks EXCEPT ![s].running = TRUE]
                    /\ dpc' = "submit"
                    /\ UNCHANGED dready
    /\ UNCHANGED <<srunning, dwake, sinfo>>
    /\ UNCHANGED poolVars
    /\ SchedStep

\* execute_task(*task_ptr) on a slot that tasks_.erase() has destroyed since
\* the scan: task->config is read through a null unique_ptr
D_Crash ==
    /\ dpc = "exec"
    /\ dready # <<>>
    /\ Head(dready) > Len(stasks)
    /\ ~crashed
    /\ crashed' = TRUE
    /\ UNCHANGED cnow
    /\ UNCHANGED <<poolVars, cacheVars, schedVars, hostVars, pubVars, callVars>>

\* thread_pool_->submit(closure): the lock
D_SubmitLock ==
    /\ dpc = "submit"
    /\ SubmitLock(DispatcherThread)
    /\ dpc' = "push"
    /\ UNCHANGED <<done, tasks, wpc, wtask, cpc, accepted, spc, scalls, execs, tres>>
    /\ UNCHANGED <<stasks, srunning, dready, dwake, sinfo>>
    /\ SchedStep

\* thread_pool_->submit(closure): the test of done and the push; execute_task()
\* ignores what submit returns
D_Submit ==
    /\ dpc = "push"
    /\ IF SubmitRefuses
       THEN /\ mtx' = Free
            /\ UNCHANGED <<tasks, wpc, sinfo>>
       ELSE /\ SubmitPush(Closure(Head(dready)))
            /\ sinfo' = IF Head(dready) <= Len(stasks)
                        THEN Note(stasks[Head(dready)].id, "submitted")
                        ELSE sinfo
    /\ dready' = Tail(dready)
    /\ dpc' = "exec"
    /\ UNCHANGED <<done, wtask, cpc, accepted, spc, scalls, execs, tres>>
    /\ UNCHANGED <<stasks, srunning, dwake>>
    /\ SchedStep

\* cleanup_completed_tasks()
D_Cleanup ==
    /\ dpc = "cleanup"
    /\ stasks' = SelectSeq(stasks, LAMBDA t : ~Completed(t))
    /\ dpc' = "wake"
    /\ UNCHANGED <<srunning, dready, dwake, sinfo>>
    /\ UNCHANGED poolVars
    /\ SchedStep

\* get_next_wake_time()
D_Wake ==
    /\ dpc = "wake"
    /\ dwake' = next_wake_time
    /\ dpc' = "wait"
    /\ UNCHANGED <<stasks, srunning, dready, sinfo>>
    /\ UNCHANGED poolVars
    /\ SchedStep

\* cv_.wait_for(cv_lock, next_wake, [this] { return !running_.load(); }) returns
D_Wait ==
    /\ dpc = "wait"
    /\ cnow >= dwake \/ ~srunning
    /\ dpc' = "top"
    /\ UNCHANGED <<stasks, srunning, dready, dwake, sinfo>>
    /\ UNCHANGED poolVars
    /\ SchedStep

\* The closure dereferences its captured slot.  cleanup_completed_tasks()
\* moves the later unique_ptrs down and destroys the slots at the end, so a
\* slot beyond the vector holds a null pointer and the dereference kills the
\* process; a slot inside the vector now holds whatever task was moved there.
SlotGone(w) == wtask[w].id > Len(stasks)

K_Crash(w) ==
    /\ wpc[w] \in {"run", "ran", "threw", "closing"}
    /\ wtask[w].kind = "closure"
    /\ SlotGone(w)
    /\ ~crashed
    /\ crashed' = TRUE
    /\ UNCHANGED cnow
    /\ UNCHANGED <<poolVars, cacheVars, schedVars, hostVars, pubVars, callVars>>

\* task->function()
K_Invoke(w) ==
    /\ wpc[w] = "run"
    /\ wtask[w].kind = "closure"
    /\ ~SlotGone(w)
    /\ \E outcome \in {"ran", "threw"} :
        /\ wpc' = [wpc EXCEPT ![w] = outcome]
        /\ sinfo' = IF outcome = "threw"
                    THEN [Note(stasks[wtask[w].id].id, "invoked")
                              EXCEPT ![stasks[wtask[w].id].id].thrown = @ + 1]
                    ELSE Note(stasks[wtask[w].id].id, "invoked")
    /\ UNCHANGED <<done, tasks, mtx, wtask, cpc, accepted, spc, scalls, execs, tres>>
    /\ UNCHANGED <<stasks, srunning, dpc, dready, dwake>>
    /\ SchedStep

\* task->stats.executions++ after a normal return, task->stats.failures++ in the handlers
K_Stats(w) ==
    /\ wpc[w] \in {"ran", "threw"}
    /\ wtask[w].kind = "closure"
    /\ ~SlotGone(w)
    /\ stasks' = IF wpc[w] = "ran"
                 THEN [stasks EXCEPT ![wtask[w].id].executions = @ + 1]
                 ELSE [stasks EXCEPT ![wtask[w].id].failures = @ + 1]
    /\ wpc' = [wpc EXCEPT ![w] = "closing"]
    /\ UNCHANGED <<done, tasks, mtx, wtask, cpc, accepted, spc, scalls, execs, tres>>
    /\ UNCHANGED <<srunning, dpc, dready, dwake, sinfo>>
    /\ SchedStep

\* calculate_next_run() of a recurring task, then task->running.store(false);
\* the closure returns to worker()
K_Close(w) ==
    /\ wpc[w] = "closing"
    /\ wtask[w].kind = "closure"
    /\ ~SlotGone(w)
    /\ LET s == wtask[w].id IN
       stasks' = [stasks EXCEPT
                    ![s].next_run = IF stasks[s].mode = "RECURRING"
                                    THEN cnow + stasks[s].interval ELSE @,
                    ![s].running = FALSE]
    /\ wpc' = [wpc EXCEPT ![w] = "start"]
    /\ wtask' = [wtask EXCEPT ![w] = NoTask]
    /\ UNCHANGED <<done, tasks, mtx, cpc, accepted, spc, scalls, execs, tres>>
    /\ UNCHANGED <<srunning, dpc, dready, dwake, sinfo>>
    /\ SchedStep

\* the steady clock advances
SchedTick ==
    /\ ~crashed
    /\ cnow < MaxSchedTime
    /\ cnow' = cnow + 1
    /\ UNCHANGED crashed
    /\ UNCHANGED <<poolVars, cacheVars, schedVars, hostVars, pubVars, callVars>>

\* ServiceScheduler(pool) with nothing scheduled
IdleSched ==
    /\ stasks = <<>>
    /\ srunning = FALSE
    /\ dpc = "off"
    /\ dready = <<>>
    /\ dwake = 0
    /\ sinfo = [id \in TaskIds |-> [mode |-> "none", submitted |-> 0, invoked |-> 0, thrown |-> 0]]

\* the task tables the service sets up with schedule_once() / schedule_interval()
\* before start(): task ids are given out in order
TaskTables ==
    UNION {[1..n -> Modes \X Intervals] : n \in 1..NumSchedTasks}

\* ServiceScheduler(pool), then schedule_*() for every task of the table
InitSched ==
    /\ srunning = FALSE
    /\ dpc = "off"
    /\ dready = <<>>
    /\ dwake = 0
    /\ \E table \in TaskTables :
        /\ stasks = [i \in DOMAIN table |-> ScheduledTask(i, table[i][1], table[i][2], 0)]
        /\ sinfo = [id \in TaskIds |->
                      [mode |-> IF id \in DOMAIN table THEN table[id][1] ELSE "none",
                       submitted |-> 0, invoked |-> 0, thrown |-> 0]]

\* the task tables a service sets up with schedule_conditional() before start()
ConditionalTables ==
    UNION {[1..n -> Conditions \X Intervals] : n \in 1..NumSchedTasks}

\* ServiceScheduler(pool), then schedule_conditional() for every task of the table
InitSchedConditional ==
    /\ srunning = FALSE
    /\ dpc = "off"
    /\ dready = <<>>
    /\ dwake = 0
    /\ \E table \in ConditionalTables :
        /\ stasks = [i \in DOMAIN table |-> ConditionalTask(i, table[i][2], table[i][1], 0)]
        /\ sinfo = [id \in TaskIds |->
                      [mode |-> IF id \in DOMAIN table THEN "CONDITIONAL" ELSE "none",
                       submitted |-> 0, invoked |-> 0, thrown |-> 0]]

InitProc ==
    /\ cnow = 0
    /\ crashed = FALSE

\* the workers of the pool, running closures
SchedWorkers ==
    \/ \E w \in Workers : W_Lock(w)
    \/ \E w \in Workers : W_Pred(w)
    \/ \E w \in Workers : W_Block(w)
    \/ \E w \in Workers : W_Reacquire(w)
    \/ \E w \in Workers : W_Decide(w)
    \/ \E w \in Workers : K_Invoke(w)
    \/ \E w \in Workers : K_Stats(w)
    \/ \E w \in Workers : K_Close(w)

DispatcherLoop ==
    \/ D_Top
    \/ D_Scan
    \/ D_Exec
    \/ D_SubmitLock
    \/ D_Submit
    \/ D_Cleanup
    \/ D_Wake
    \/ D_Wait

NextSched ==
    \/ SchedWorkers
    \/ D_Start
    \/ DispatcherLoop
    \/ \E w \in Workers : K_Crash(w)
    \/ SchedTick

\* a scheduler of conditional tasks: nothing is ever erased from tasks_
NextSchedConditional ==
    \/ SchedWorkers
    \/ D_Start
    \/ DispatcherLoop
    \/ SchedTick

-----------------------------------------------------------------------------
(* ServiceHost: start, signal and shutdown *)

\* the id schedule_interval() gives the permanent maintenance task: the first
\* task of the scheduler (next_task_id_ starts at 1)
PermanentId == 1

\* config.permanent_task_interval in ticks of the model's clock
PermanentInterval == 1

\* ServiceScheduler::cancel_task(id): tasks_.erase of the task with that id
cancel_task(id) == SelectSeq(stasks, LAMBDA t : t.id # id)

HostStep == ~crashed /\ UNCHANGED <<cacheVars, procVars, pubVars, callVars>>

Did(step) == hsteps' = Append(hsteps, step)

\* StartService(config): NATS is connected and running_ is set; this path
\* starts neither the watcher, nor the scheduler, nor the permanent tasks
H_StartService ==
    /\ hpc = "constructed"
    /\ conn' = "open"
    /\ hrunning' = TRUE
    /\ hpc' = "serving"
    /\ UNCHANGED <<perm_running, perm_id, watch, hsig, hsteps>>
    /\ UNCHANGED <<poolVars, schedVars>>
    /\ HostStep

\* StartServiceInfrastructureAsync(config) and CompleteServiceStartup(config):
\* config_.startWatch(), scheduler_->start(), NATS, running_ = true and, if
\* the configuration enables them, StartPermanentTasks(config)
H_StartParallel(permanent) ==
    /\ hpc = "constructed"
    /\ watch' = "watching"
    /\ srunning' = TRUE
    /\ dpc' = "top"
    /\ conn' = "open"
    /\ hrunning' = TRUE
    /\ IF permanent
       THEN /\ perm_running' = TRUE
            /\ perm_id' = PermanentId
            /\ stasks' = Append(stasks,
                   ScheduledTask(PermanentId, "RECURRING", PermanentInterval, cnow))
            /\ sinfo' = [sinfo EXCEPT ![PermanentId].mode = "RECURRING"]
       ELSE UNCHANGED <<perm_running, perm_id, stasks, sinfo>>
    /\ hpc' = "serving"
    /\ UNCHANGED <<hsig, hsteps, dready, dwake>>
    /\ UNCHANGED poolVars
    /\ HostStep

\* signal_handler(): instance_->stop(), that is running_ = false
H_Signal ==
    /\ hpc = "serving"
    /\ ~hsig
    /\ hsig' = TRUE
    /\ hrunning' = FALSE
    /\ UNCHANGED <<hpc, perm_running, perm_id, watch, conn, hsteps>>
    /\ UNCHANGED <<poolVars, schedVars>>
    /\ HostStep

\* the main loop `while (is_running()) sleep` ends and run() calls shutdown()
H_MainLoopEnds ==
    /\ hpc = "serving"
    /\ ~hrunning
    /\ hpc' = "call"
    /\ UNCHANGED <<hrunning, perm_running, perm_id, watch, conn, hsig, hsteps>>
    /\ UNCHANGED <<poolVars, schedVars>>
    /\ HostStep

\* the application calls shutdown() on the running service
H_CallShutdown ==
    /\ hpc = "serving"
    /\ hrunning
    /\ hpc' = "call"
    /\ UNCHANGED <<hrunning, perm_running, perm_id, watch, conn, hsig, hsteps>>
    /\ UNCHANGED <<poolVars, schedVars>>
    /\ HostStep

\* shutdown(): if (!running_) return; running_ = false;
H_ShutdownEnter ==
    /\ hpc = "call"
    /\ IF ~hrunning
       THEN hpc' = "returned" /\ UNCHANGED hrunning
       ELSE hpc' = "permanent" /\ hrunning' = FALSE
    /\ UNCHANGED <<perm_running, perm_id, watch, conn, hsig, hsteps>>
    /\ UNCHANGED <<poolVars, schedVars>>
    /\ HostStep

\* StopPermanentTasks()
H_StopPermanent ==
    /\ hpc = "permanent"
    /\ IF ~perm_running
       THEN UNCHANGED <<perm_running, perm_id, stasks>>
       ELSE /\ perm_running' = FALSE
            /\ perm_id' = 0
            /\ stasks' = IF perm_id # 0 THEN cancel_task(perm_id) ELSE stasks
    /\ Did("permanent")
    /\ hpc' = "watch"
    /\ UNCHANGED <<hrunning, watch, conn, hsig>>
    /\ UNCHANGED <<srunning, dpc, dready, dwake, sinfo>>
    /\ UNCHANGED poolVars
    /\ HostStep

\* config_.stopWatch(): the stop flag is set and the watcher thread joined
H_StopWatch ==
    /\ hpc = "watch"
    /\ watch' = "stopped"
    /\ Did("watch")
    /\ hpc' = "pool"
    /\ UNCHANGED <<hrunning, perm_running, perm_id, conn, hsig>>
    /\ UNCHANGED <<poolVars, schedVars>>
    /\ HostStep

\* thread_pool_.shutdown() is entered
H_PoolShutdown ==
    /\ hpc = "pool"
    /\ spc = "idle"
    /\ ShutdownEnter

\* thread_pool_.shutdown() has returned
H_PoolDown ==
    /\ hpc = "pool"
    /\ spc = "returned"
    /\ Did("pool")
    /\ hpc' = "bus"
    /\ UNCHANGED <<hrunning, perm_running, perm_id, watch, conn, hsig>>
    /\ UNCHANGED <<poolVars, schedVars>>
    /\ HostStep

\* natsConnection_Close(conn_); natsConnection_Destroy(conn_); shutdown() returns
H_CloseBus ==
    /\ hpc = "bus"
    /\ conn' = IF conn = "open" THEN "closed" ELSE conn
    /\ Did("bus")
    /\ hpc' = "returned"
    /\ UNCHANGED <<hrunning, perm_running, perm_id, watch, hsig>>
    /\ UNCHANGED <<poolVars, schedVars>>
    /\ HostStep

\* ServiceHost(uid, name): running_{true}, nothing started
InitHost ==
    /\ hrunning = TRUE
    /\ hpc = "constructed"
    /\ perm_running = FALSE
    /\ perm_id = 0
    /\ watch = "off"
    /\ conn = "none"
    /\ hsig = FALSE
    /\ hsteps = <<>>

NextHost ==
    \/ H_StartService
    \/ \E permanent \in BOOLEAN : H_StartParallel(permanent)
    \/ H_Signal
    \/ H_MainLoopEnds
    \/ H_CallShutdown
    \/ H_ShutdownEnter
    \/ H_StopPermanent
    \/ H_StopWatch
    \/ H_PoolShutdown
    \/ S_Notify
    \/ S_Join
    \/ H_PoolDown
    \/ H_CloseBus
    \/ SchedWorkers
    \/ DispatcherLoop
    \/ \E w \in Workers : K_Crash(w)
    \/ D_Crash
    \/ SchedTick

-----------------------------------------------------------------------------
(* ServiceScheduler: the calls a service makes while the dispatcher runs *)
\* schedule_interval() and enable_task() end with cv_.notify_one().  The
\* dispatcher waits in cv_.wait_for(lock, next_wake, pred) with the predicate
\* !running_: a notified wait_for re-evaluates the predicate, finds it false
\* and goes on waiting for what is left of next_wake, so the notification
\* changes nothing and D_Wait above is the only way out of the wait.

\* next_task_id_.fetch_add(1): ids are given out in order
NextTaskId == 1 + Cardinality({id \in TaskIds : sinfo[id].mode # "none"})

\* the slot of tasks_ std::find_if finds for an id (0: tasks_.end())
SlotOf(id) ==
    IF \E s \in Slots : stasks[s].id = id
    THEN CHOOSE s \in Slots : stasks[s].id = id
    ELSE 0

\* schedule_interval(name, interval, task) with the default TaskConfig
A_Schedule(interval) ==
    /\ NextTaskId <= NumSchedTasks
    /\ stasks' = Append(stasks, ScheduledTask(NextTaskId, "RECURRING", interval, cnow))
    /\ sinfo' = [sinfo EXCEPT ![NextTaskId].mode = "RECURRING"]
    /\ UNCHANGED <<srunning, dpc, dready, dwake>>
    /\ UNCHANGED poolVars
    /\ SchedStep

\* enable_task(id) of a task that is disabled
A_Enable(id) ==
    /\ SlotOf(id) # 0
    /\ ~stasks[SlotOf(id)].enabled
    /\ stasks' = [stasks EXCEPT ![SlotOf(id)].enabled = TRUE]
    /\ UNCHANGED <<srunning, dpc, dready, dwake, sinfo>>
    /\ UNCHANGED poolVars
    /\ SchedStep

\* disable_task(id) of a task that is enabled
A_Disable(id) ==
    /\ SlotOf(id) # 0
    /\ stasks[SlotOf(id)].enabled
    /\ stasks' = [stasks EXCEPT ![SlotOf(id)].enabled = FALSE]
    /\ UNCHANGED <<srunning, dpc, dready, dwake, sinfo>>
    /\ UNCHANGED poolVars
    /\ SchedStep

\* cancel_task(id) of a task that exists
A_Cancel(id) ==
    /\ SlotOf(id) # 0
    /\ stasks' = cancel_task(id)
    /\ UNCHANGED <<srunning, dpc, dready, dwake, sinfo>>
    /\ UNCHANGED poolVars
    /\ SchedStep

\* the tasks the service enables, disables and cancels
\* no cancel_task() was called, and no element of tasks_ was destroyed
IdleCancel ==
    /\ kcall = [id |-> 0, res |-> FALSE, calls |-> 0, cancelled |-> {}]
    /\ sresidue = [pos \in TaskIds |-> 0]

\* what is left in the storage of tasks_ after erase(it): the elements behind
\* it are move-assigned one position down and the last element is destroyed.
\* The destroyed unique_ptr is null, or still holds the pointer the last
\* element held when the build drops the stores into the dying object
ResiduesAfterErase ==
    {[sresidue EXCEPT ![Len(stasks)] = left] : left \in {0, stasks[Len(stasks)].id}}

\* bool cancel_task(id): find_if and erase under tasks_mutex_, for any id
A_CancelCall(id) ==
    /\ kcall.calls < MaxCancels
    /\ IF SlotOf(id) # 0
       THEN /\ stasks' = cancel_task(id)
            /\ sresidue' \in ResiduesAfterErase
            /\ kcall' = [id |-> id, res |-> TRUE, calls |-> kcall.calls + 1,
                         cancelled |-> kcall.cancelled \cup {id}]
       ELSE /\ kcall' = [kcall EXCEPT !.id = id, !.res = FALSE, !.calls = @ + 1]
            /\ UNCHANGED <<stasks, sresidue>>
    /\ UNCHANGED <<srunning, dpc, dready, dwake, sinfo>>
    /\ UNCHANGED poolVars
    /\ ~crashed
    /\ UNCHANGED <<cacheVars, procVars, hostVars, pubVars>>
    /\ UNCHANGED <<stopVars, recvVars, downVars, timeoutVars, startVars, permVars, registryVars, toggleVars>>

\* the closure of a slot that erase() destroyed runs through the pointer the
\* destroyed element still holds: task->function() and the writes to
\* task->stats, task->next_run and task->running go to that task, erased or not
K_Stale(w) ==
    /\ wpc[w] = "run"
    /\ wtask[w].kind = "closure"
    /\ SlotGone(w)
    /\ sresidue[wtask[w].id] # 0
    /\ LET id == sresidue[wtask[w].id]
           s == SlotOf(id)
       IN  /\ sinfo' = Note(id, "invoked")
           /\ stasks' = IF s = 0 THEN stasks
                         ELSE [stasks EXCEPT ![s].executions = @ + 1,
                                             ![s].next_run = cnow + stasks[s].interval,
                                             ![s].running = FALSE]
    /\ wpc' = [wpc EXCEPT ![w] = "start"]
    /\ wtask' = [wtask EXCEPT ![w] = NoTask]
    /\ UNCHANGED <<done, tasks, mtx, cpc, accepted, spc, scalls, execs, tres>>
    /\ UNCHANGED <<srunning, dpc, dready, dwake>>
    /\ SchedStep

\* a started scheduler of recurring tasks whose tasks are cancelled while it runs
NextCancel ==
    \/ \E id \in TaskIds : A_CancelCall(id)
    \/ SchedWorkers
    \/ D_Start
    \/ DispatcherLoop
    \/ D_Crash
    \/ \E w \in Workers : K_Crash(w)
    \/ \E w \in Workers : K_Stale(w)
    \/ SchedTick

CalledTasks == 1..NumCalledTasks

\* the calls of the service
SchedCalls ==
    \/ \E interval \in Intervals : A_Schedule(interval)
    \/ \E id \in CalledTasks : A_Enable(id)
    \/ \E id \in CalledTasks : A_Disable(id)
    \/ \E id \in CalledTasks : A_Cancel(id)

NextSchedCalls ==
    \/ SchedCalls
    \/ SchedWorkers
    \/ D_Start
    \/ DispatcherLoop
    \/ D_Crash
    \/ \E w \in Workers : K_Crash(w)
    \/ SchedTick

-----------------------------------------------------------------------------
(* ServiceScheduler: stop() *)
\* stop() sets running_ to false, notifies cv_ without holding cv_mutex_,
\* joins the dispatcher and then disables every task.  A dispatcher that is
\* inside wait_for leaves it when it is notified or, if the notification
\* came between its test of the predicate and its blocking, when next_wake
\* has passed (a minute at most); in both cases the loop condition then
\* reads running_ == false.  D_Wait is that return.

\* a step of the thread that calls stop()
StopStep ==
    /\ ~crashed
    /\ UNCHANGED <<poolVars, cacheVars, procVars, hostVars, pubVars>>
    /\ UNCHANGED <<recvVars, downVars, timeoutVars, startVars, permVars, registryVars, toggleVars, cancelVars>>

\* a join() that does not wait for the thread
JoinReturnsAtOnce == TRUE

\* scheduler_thread_.join() returns: the dispatcher has left scheduler_loop()
JoinReturns == dpc = "stopped"

\* stop(): if (!running_.exchange(false)) return; cv_.notify_all();
X_Enter ==
    /\ xpc \in {"idle", "returned"}
    /\ xcalls < MaxStopCalls
    /\ xcalls' = xcalls + 1
    /\ srunning' = FALSE
    /\ IF srunning
       THEN xpc' = "join" /\ xres' = "stopping"
       ELSE xpc' = "returned" /\ xres' = "not_running"
    /\ UNCHANGED <<stasks, dpc, dready, dwake, sinfo>>
    /\ StopStep

\* stop(): if (scheduler_thread_.joinable()) scheduler_thread_.join();
X_Join ==
    /\ xpc = "join"
    /\ JoinReturns
    /\ xpc' = "disable"
    /\ UNCHANGED <<xcalls, xres>>
    /\ UNCHANGED schedVars
    /\ StopStep

\* stop(): for (auto& task : tasks_) task->config.enabled = false; return
X_Disable ==
    /\ xpc = "disable"
    /\ stasks' = [s \in Slots |-> [stasks[s] EXCEPT !.enabled = FALSE]]
    /\ xpc' = "returned"
    /\ xres' = "stopped"
    /\ UNCHANGED xcalls
    /\ UNCHANGED <<srunning, dpc, dready, dwake, sinfo>>
    /\ StopStep

\* the periods of the recurring tasks of a service that is stopped
Periods == {1}

\* the task tables a service sets up with schedule_interval() before start():
\* nothing is ever erased from tasks_
RecurringTables ==
    UNION {[1..n -> {"RECURRING"} \X Periods] : n \in 1..NumSchedTasks}

\* ServiceScheduler(pool), then schedule_interval() for every task of the table
InitSchedRecurring ==
    /\ srunning = FALSE
    /\ dpc = "off"
    /\ dready = <<>>
    /\ dwake = 0
    /\ \E table \in RecurringTables :
        /\ stasks = [i \in DOMAIN table |-> ScheduledTask(i, table[i][1], table[i][2], 0)]
        /\ sinfo = [id \in TaskIds |->
                      [mode |-> IF id \in DOMAIN table THEN table[id][1] ELSE "none",
                       submitted |-> 0, invoked |-> 0, thrown |-> 0]]

\* the steps of worker w on a closure that need nothing but the processor
ClosureRuns(w) ==
    W_Pred(w) \/ W_Block(w) \/ W_Decide(w) \/ K_Invoke(w) \/ K_Stats(w) \/ K_Close(w)

\* the steps of the dispatcher that need nothing but the processor
DispatcherRuns ==
    D_Top \/ D_Scan \/ D_Exec \/ D_Submit \/ D_Cleanup \/ D_Wake \/ D_Wait

\* the operating system schedules every thread, and a thread that keeps
\* asking for the pool's mtx gets it
StopFairness ==
    /\ WF_vars(DispatcherRuns) /\ SF_vars(D_SubmitLock)
    /\ \A w \in Workers : WF_vars(ClosureRuns(w)) /\ SF_vars(WorkerLocks(w))
    /\ WF_vars(X_Join) /\ WF_vars(X_Disable)

NextSchedStop ==
    \/ SchedWorkers
    \/ D_Start
    \/ DispatcherLoop
    \/ SchedTick
    \/ X_Enter
    \/ X_Join
    \/ X_Disable

\* ServiceHost::shutdown() calls thread_pool_.shutdown() and leaves the
\* scheduler running: the dispatcher goes on submitting to a pool that is
\* shut down
NextSchedPoolDown ==
    \/ SchedWorkers
    \/ D_Start
    \/ DispatcherLoop
    \/ SchedTick
    \/ S_Call
    \/ S_Notify
    \/ S_Join

-----------------------------------------------------------------------------
(* ServiceHost: register_message, receive_message and the handler tasks *)
\* register_message<T>() stores a wrapper under the type name and, when the
\* service is connected, subscribes to the subject of the type.  The bus
\* delivers a message once to every subscription on its subject, and the
\* callback of a subscription calls receive_message().  receive_message()
\* submits a task that calls the wrapper; the wrapper decodes the payload
\* and submits a second task that calls the user's handler.

Receives == 1..NumReceives
BusMessages == 1..NumBusMessages
Payloads == {"valid", "garbage"}

ReceiveThread(c) == [kind |-> "receiver", id |-> c]

\* the task receive_message() submits, and the task the wrapper submits
ReceiveTask(c) == [kind |-> "receive", id |-> c]
HandlerTask(c) == [kind |-> "handle", id |-> c]

NoReceive ==
    [pc |-> "free", payload |-> "none", msg |-> 0, late |-> FALSE, h |-> 0,
     outer |-> "none", decoded |-> "none", inner |-> "none", calls |-> 0]

\* a step of a thread that receives or handles a message
RecvStep ==
    ~crashed
    /\ UNCHANGED <<cacheVars, procVars, schedVars, hostVars, pubVars>>
    /\ UNCHANGED <<stopVars, downVars, timeoutVars, startVars, permVars, registryVars, toggleVars, cancelVars>>

\* a decoder that accepts every payload
DecodesAlways(payload) == TRUE

\* msg.ParseFromString(raw)
Decodes(payload) == payload = "valid"

\* register_message<T>(routing, handler): handlers_[type_name] = wrapper;
\* if (conn_) subscribe_..._V2(type_name)
M_Register ==
    /\ regs < MaxRegistrations
    /\ regs' = regs + 1
    /\ handlers' = regs + 1
    /\ subs' = IF conn = "open" THEN subs + 1 ELSE subs
    /\ UNCHANGED <<rcall, published>>
    /\ UNCHANGED poolVars
    /\ RecvStep

\* receive_message(type_name, payload): handlers_.find(type_name)
Find(c, payload, msg) ==
    [rcall EXCEPT ![c] = [NoReceive EXCEPT
        !.pc = IF handlers = 0 THEN "returned" ELSE "found",
        !.payload = payload, !.msg = msg, !.late = ~hrunning, !.h = handlers]]

\* the application calls receive_message(type_name, payload)
M_Receive(c, payload) ==
    /\ rcall[c].pc = "free"
    /\ rcall' = Find(c, payload, 0)
    /\ UNCHANGED <<handlers, subs, regs, published>>
    /\ UNCHANGED poolVars
    /\ RecvStep

\* the calls that have not been made
FreeCalls == {c \in Receives : rcall[c].pc = "free"}

\* a message is published on the subject: the bus has one delivery to make
\* for every subscription
B_Publish(b, payload) ==
    /\ conn = "open"
    /\ b \notin published
    /\ published' = published \cup {b}
    /\ \E S \in SUBSET FreeCalls :
        /\ Cardinality(S) = subs
        /\ rcall' = [c \in Receives |->
                       IF c \in S
                       THEN [NoReceive EXCEPT !.pc = "pending", !.payload = payload, !.msg = b]
                       ELSE rcall[c]]
    /\ UNCHANGED <<handlers, subs, regs>>
    /\ UNCHANGED poolVars
    /\ RecvStep

\* the callback of a subscription: self->receive_message(type_name, payload)
B_Deliver(c) ==
    /\ rcall[c].pc = "pending"
    /\ conn = "open"
    /\ rcall' = Find(c, rcall[c].payload, rcall[c].msg)
    /\ UNCHANGED <<handlers, subs, regs, published>>
    /\ UNCHANGED poolVars
    /\ RecvStep

\* receive_message(): thread_pool_.submit(task): the lock
M_SubmitLock(c) ==
    /\ rcall[c].pc = "found"
    /\ SubmitLock(ReceiveThread(c))
    /\ rcall' = [rcall EXCEPT ![c].pc = "locked"]
    /\ UNCHANGED <<handlers, subs, regs, published>>
    /\ UNCHANGED <<done, tasks, wpc, wtask, cpc, accepted, spc, scalls, execs, tres>>
    /\ RecvStep

\* receive_message(): thread_pool_.submit(task): the test of done and the
\* push; receive_message() ignores what submit returns
M_Submit(c) ==
    /\ rcall[c].pc = "locked"
    /\ IF SubmitRefuses
       THEN /\ mtx' = Free
            /\ rcall' = [rcall EXCEPT ![c].pc = "returned", ![c].outer = "false"]
            /\ UNCHANGED <<tasks, wpc>>
       ELSE /\ SubmitPush(ReceiveTask(c))
            /\ rcall' = [rcall EXCEPT ![c].pc = "returned", ![c].outer = "true"]
    /\ UNCHANGED <<handlers, subs, regs, published>>
    /\ UNCHANGED <<done, wtask, cpc, accepted, spc, scalls, execs, tres>>
    /\ RecvStep

\* the task of receive_message() on a worker: handler(payload), that is the
\* wrapper up to its submit: a payload that does not parse ends it
R_Wrapper(w) ==
    /\ wpc[w] = "run"
    /\ wtask[w].kind = "receive"
    /\ IF Decodes(rcall[wtask[w].id].payload)
       THEN /\ rcall' = [rcall EXCEPT ![wtask[w].id].decoded = "ok"]
            /\ wpc' = [wpc EXCEPT ![w] = "nested"]
            /\ UNCHANGED wtask
       ELSE /\ rcall' = [rcall EXCEPT ![wtask[w].id].decoded = "failed"]
            /\ wpc' = [wpc EXCEPT ![w] = "start"]
            /\ wtask' = [wtask EXCEPT ![w] = NoTask]
    /\ UNCHANGED <<handlers, subs, regs, published>>
    /\ UNCHANGED <<done, tasks, mtx, cpc, accepted, spc, scalls, execs, tres>>
    /\ RecvStep

\* the wrapper: thread_pool_.submit(inner task): the lock
R_NestedLock(w) ==
    /\ wpc[w] = "nested"
    /\ SubmitLock(WorkerThread(w))
    /\ wpc' = [wpc EXCEPT ![w] = "nested_push"]
    /\ UNCHANGED recvVars
    /\ UNCHANGED <<done, tasks, wtask, cpc, accepted, spc, scalls, execs, tres>>
    /\ RecvStep

\* the wrapper: thread_pool_.submit(inner task): the test of done and the
\* push; the wrapper ignores what submit returns and the outer task ends
R_NestedSubmit(w) ==
    /\ wpc[w] = "nested_push"
    /\ IF SubmitRefuses
       THEN /\ mtx' = Free
            /\ rcall' = [rcall EXCEPT ![wtask[w].id].inner = "false"]
            /\ wpc' = [wpc EXCEPT ![w] = "start"]
            /\ UNCHANGED tasks
       ELSE /\ tasks' = Append(tasks, HandlerTask(wtask[w].id))
            /\ mtx' = Free
            /\ rcall' = [rcall EXCEPT ![wtask[w].id].inner = "true"]
            /\ wpc' \in {[pc EXCEPT ![w] = "start"] : pc \in NotifyOne(wpc)}
    /\ wtask' = [wtask EXCEPT ![w] = NoTask]
    /\ UNCHANGED <<handlers, subs, regs, published>>
    /\ UNCHANGED <<done, cpc, accepted, spc, scalls, execs, tres>>
    /\ RecvStep

\* the inner task on a worker: try { handler(msg); } catch (...) { log }
R_Handle(w) ==
    /\ wpc[w] = "run"
    /\ wtask[w].kind = "handle"
    /\ rcall' = [rcall EXCEPT ![wtask[w].id].calls = @ + 1]
    /\ wpc' = [wpc EXCEPT ![w] = "start"]
    /\ wtask' = [wtask EXCEPT ![w] = NoTask]
    /\ UNCHANGED <<handlers, subs, regs, published>>
    /\ UNCHANGED <<done, tasks, mtx, cpc, accepted, spc, scalls, execs, tres>>
    /\ RecvStep

\* ServiceHost(uid, name): no handler, no subscription, nothing received
IdleReceive ==
    /\ handlers = 0
    /\ subs = 0
    /\ regs = 0
    /\ rcall = [c \in Receives |-> NoReceive]
    /\ published = {}

\* the workers of the pool, running the tasks of received messages
ReceiveWorkers ==
    \/ \E w \in Workers : W_Lock(w)
    \/ \E w \in Workers : W_Pred(w)
    \/ \E w \in Workers : W_Block(w)
    \/ \E w \in Workers : W_Reacquire(w)
    \/ \E w \in Workers : W_Decide(w)
    \/ \E w \in Workers : R_Wrapper(w)
    \/ \E w \in Workers : R_NestedLock(w)
    \/ \E w \in Workers : R_NestedSubmit(w)
    \/ \E w \in Workers : R_Handle(w)

\* the calls of receive_message() up to their return
ReceiveCalls ==
    \/ \E c \in Receives, payload \in Payloads : M_Receive(c, payload)
    \/ \E c \in Receives : M_SubmitLock(c)
    \/ \E c \in Receives : M_Submit(c)

\* a service that is not connected, as in the unit test: handlers are
\* registered and receive_message() is called by the application
NextReceive ==
    \/ M_Register
    \/ ReceiveCalls
    \/ ReceiveWorkers

\* StartService(), a signal or stop(), and shutdown() on the main thread
HostLifecycle ==
    \/ H_StartService
    \/ H_Signal
    \/ H_MainLoopEnds
    \/ H_CallShutdown
    \/ H_ShutdownEnter
    \/ H_StopPermanent
    \/ H_StopWatch
    \/ H_PoolShutdown
    \/ S_Notify
    \/ S_Join
    \/ H_PoolDown
    \/ H_CloseBus

\* a connected service whose messages come from the bus
NextSubscribed ==
    \/ M_Register
    \/ \E b \in BusMessages, payload \in Payloads : B_Publish(b, payload)
    \/ \E c \in Receives : B_Deliver(c)
    \/ \E c \in Receives : M_SubmitLock(c)
    \/ \E c \in Receives : M_Submit(c)
    \/ ReceiveWorkers

\* a service that is handed messages while it is started, stopped and shut down
NextReceiveStop ==
    \/ M_Register
    \/ ReceiveCalls
    \/ ReceiveWorkers
    \/ HostLifecycle

-----------------------------------------------------------------------------
(* ServiceHost: shutdown() called by several threads *)
\* running_ is atomic, but shutdown() reads it and stores it in two separate
\* operations; js_ and conn_ are plain pointers that shutdown() tests and
\* then destroys.  Every read and every write below is a step of its own.

ShutdownCallers == 1..NumShutdownCallers
Teardowns == {"pool", "js", "conn"}

\* a step of a thread inside shutdown()
DownStep ==
    /\ ~crashed
    /\ UNCHANGED <<cacheVars, pubVars, stopVars, recvVars, timeoutVars, startVars, permVars, registryVars, toggleVars, cancelVars>>
    /\ UNCHANGED <<hpc, hsig, hsteps, cnow>>

Performed(step) == teardowns' = [teardowns EXCEPT ![step] = @ + 1]

\* what destroying an object does to the process: an object that is destroyed
\* a second time was freed before, and the process may die or go on
Destroyed(times) == IF times = 0 THEN {FALSE} ELSE {FALSE, TRUE}

\* shutdown(): if (!running_) return;   (TRUE: the caller goes on)
PassesGuard(t) == hrunning

\* shutdown() is called and reads running_
G_Call(t) ==
    /\ gpc[t] \in {"idle", "returned"}
    /\ gcalls < MaxHostShutdowns
    /\ gcalls' = gcalls + 1
    /\ gpc' = [gpc EXCEPT ![t] = IF PassesGuard(t) THEN "set" ELSE "returned"]
    /\ UNCHANGED <<js, teardowns, crashed>>
    /\ UNCHANGED <<hrunning, perm_running, perm_id, watch, conn>>
    /\ UNCHANGED <<poolVars, schedVars>>
    /\ DownStep

\* shutdown(): running_ = false;
G_Set(t) ==
    /\ gpc[t] = "set"
    /\ hrunning' = FALSE
    /\ gpc' = [gpc EXCEPT ![t] = "background"]
    /\ UNCHANGED <<gcalls, js, teardowns, crashed>>
    /\ UNCHANGED <<perm_running, perm_id, watch, conn>>
    /\ UNCHANGED <<poolVars, schedVars>>
    /\ DownStep

\* shutdown(): StopPermanentTasks(); config_.stopWatch();
G_StopBackground(t) ==
    /\ gpc[t] = "background"
    /\ IF ~perm_running
       THEN UNCHANGED <<perm_running, perm_id, stasks>>
       ELSE /\ perm_running' = FALSE
            /\ perm_id' = 0
            /\ stasks' = IF perm_id # 0 THEN cancel_task(perm_id) ELSE stasks
    /\ watch' = IF watch = "watching" THEN "stopped" ELSE watch
    /\ gpc' = [gpc EXCEPT ![t] = "pool"]
    /\ UNCHANGED <<gcalls, js, teardowns, crashed>>
    /\ UNCHANGED <<hrunning, conn>>
    /\ UNCHANGED <<srunning, dpc, dready, dwake, sinfo>>
    /\ UNCHANGED poolVars
    /\ DownStep

\* shutdown(): thread_pool_.shutdown() is entered: if (done.exchange(true)) return;
G_PoolShutdown(t) ==
    /\ gpc[t] = "pool"
    /\ IF done
       THEN /\ gpc' = [gpc EXCEPT ![t] = "js"]
            /\ UNCHANGED <<spc, scalls, teardowns>>
       ELSE /\ spc' = "notify"
            /\ scalls' = scalls + 1
            /\ Performed("pool")
            /\ gpc' = [gpc EXCEPT ![t] = "pooljoin"]
    /\ done' = TRUE
    /\ UNCHANGED <<gcalls, js, crashed>>
    /\ UNCHANGED <<tasks, mtx, wpc, wtask, cpc, accepted, execs, tres>>
    /\ UNCHANGED <<hrunning, perm_running, perm_id, watch, conn>>
    /\ UNCHANGED schedVars
    /\ DownStep

\* shutdown(): thread_pool_.shutdown() has joined the workers and returns
G_PoolDown(t) ==
    /\ gpc[t] = "pooljoin"
    /\ spc = "returned"
    /\ gpc' = [gpc EXCEPT ![t] = "js"]
    /\ UNCHANGED <<gcalls, js, teardowns, crashed>>
    /\ UNCHANGED <<hrunning, perm_running, perm_id, watch, conn>>
    /\ UNCHANGED <<poolVars, schedVars>>
    /\ DownStep

\* shutdown(): if (js_)
G_JsTest(t) ==
    /\ gpc[t] = "js"
    /\ gpc' = [gpc EXCEPT ![t] = IF js = "live" THEN "js_destroy" ELSE "conn"]
    /\ UNCHANGED <<gcalls, js, teardowns, crashed>>
    /\ UNCHANGED <<hrunning, perm_running, perm_id, watch, conn>>
    /\ UNCHANGED <<poolVars, schedVars>>
    /\ DownStep

\* shutdown(): jsCtx_Destroy(js_); js_ = nullptr;
G_JsDestroy(t) ==
    /\ gpc[t] = "js_destroy"
    /\ Performed("js")
    /\ crashed' \in Destroyed(teardowns["js"])
    /\ js' = "null"
    /\ gpc' = [gpc EXCEPT ![t] = "conn"]
    /\ UNCHANGED gcalls
    /\ UNCHANGED <<hrunning, perm_running, perm_id, watch, conn>>
    /\ UNCHANGED <<poolVars, schedVars>>
    /\ DownStep

\* shutdown(): if (conn_)
G_ConnTest(t) ==
    /\ gpc[t] = "conn"
    /\ gpc' = [gpc EXCEPT ![t] = IF conn = "open" THEN "conn_destroy" ELSE "returned"]
    /\ UNCHANGED <<gcalls, js, teardowns, crashed>>
    /\ UNCHANGED <<hrunning, perm_running, perm_id, watch, conn>>
    /\ UNCHANGED <<poolVars, schedVars>>
    /\ DownStep

\* shutdown(): natsConnection_Close(conn_); natsConnection_Destroy(conn_);
\* conn_ = nullptr; and shutdown() returns
G_ConnDestroy(t) ==
    /\ gpc[t] = "conn_destroy"
    /\ Performed("conn")
    /\ crashed' \in Destroyed(teardowns["conn"])
    /\ conn' = "closed"
    /\ gpc' = [gpc EXCEPT ![t] = "returned"]
    /\ UNCHANGED <<gcalls, js>>
    /\ UNCHANGED <<hrunning, perm_running, perm_id, watch>>
    /\ UNCHANGED <<poolVars, schedVars>>
    /\ DownStep

\* no thread has called shutdown(); js_ is null (no JetStream context yet)
IdleShutdown ==
    /\ gpc = [t \in ShutdownCallers |-> "idle"]
    /\ gcalls = 0
    /\ js = "null"
    /\ teardowns = [step \in Teardowns |-> 0]

\* init_nats() has created the JetStream context
InitShutdown ==
    /\ gpc = [t \in ShutdownCallers |-> "idle"]
    /\ gcalls = 0
    /\ js = "live"
    /\ teardowns = [step \in Teardowns |-> 0]

\* shutdown() in each of the calling threads
ShutdownCalls ==
    \/ \E t \in ShutdownCallers : G_Call(t)
    \/ \E t \in ShutdownCallers : G_Set(t)
    \/ \E t \in ShutdownCallers : G_StopBackground(t)
    \/ \E t \in ShutdownCallers : G_PoolShutdown(t)
    \/ \E t \in ShutdownCallers : G_PoolDown(t)
    \/ \E t \in ShutdownCallers : G_JsTest(t)
    \/ \E t \in ShutdownCallers : G_JsDestroy(t)
    \/ \E t \in ShutdownCallers : G_ConnTest(t)
    \/ \E t \in ShutdownCallers : G_ConnDestroy(t)

\* the workers of a pool that has no task
IdleWorkers ==
    \/ \E w \in Workers : W_Lock(w)
    \/ \E w \in Workers : W_Pred(w)
    \/ \E w \in Workers : W_Block(w)
    \/ \E w \in Workers : W_Reacquire(w)
    \/ \E w \in Workers : W_Decide(w)

\* shutdown() past its call
ShutdownSteps ==
    \/ \E t \in ShutdownCallers : G_Set(t)
    \/ \E t \in ShutdownCallers : G_StopBackground(t)
    \/ \E t \in ShutdownCallers : G_PoolShutdown(t)
    \/ \E t \in ShutdownCallers : G_PoolDown(t)
    \/ \E t \in ShutdownCallers : G_JsTest(t)
    \/ \E t \in ShutdownCallers : G_JsDestroy(t)
    \/ \E t \in ShutdownCallers : G_ConnTest(t)
    \/ \E t \in ShutdownCallers : G_ConnDestroy(t)

NextShutdownCalls ==
    \/ ShutdownCalls
    \/ S_Notify
    \/ S_Join
    \/ IdleWorkers

-----------------------------------------------------------------------------
(* ServiceHost: shutdown_with_timeout() *)
\* The caller stores running_ = false and then starts a thread that calls
\* shutdown().  Of the threads that call shutdown(), thread 1 is that
\* background thread; the others belong to the application.

BackgroundThread == 1
ApplicationThreads == ShutdownCallers \ {BackgroundThread}
Timeouts == 0..MaxTimeout

\* a step of the thread inside shutdown_with_timeout()
TimeoutStep ==
    /\ ~crashed
    /\ UNCHANGED <<poolVars, cacheVars, procVars, schedVars, pubVars>>
    /\ UNCHANGED <<stopVars, recvVars, downVars, startVars, permVars, registryVars, toggleVars, cancelVars>>
    /\ UNCHANGED <<hpc, perm_running, perm_id, watch, conn, hsig, hsteps>>

\* shutdown_with_timeout(timeout): if (!running_) return; start_time = now();
\* running_ = false;
Y_Call(timeout) ==
    /\ ypc = "idle"
    /\ \A t \in ShutdownCallers : gpc[t] = "idle"
    /\ ytimeout' = timeout
    /\ IF ~hrunning
       THEN /\ ypc' = "returned"
            /\ yres' = "not_running"
            /\ UNCHANGED <<ystart, hrunning>>
       ELSE /\ ystart' = cnow
            /\ hrunning' = FALSE
            /\ ypc' = "spawn"
            /\ UNCHANGED yres
    /\ TimeoutStep

\* std::thread shutdown_thread([this]() { shutdown(); });
Y_Spawn ==
    /\ ypc = "spawn"
    /\ ypc' = "test"
    /\ UNCHANGED <<ytimeout, ystart, yres, hrunning>>
    /\ TimeoutStep

\* the background thread runs: it calls shutdown()
Y_Background ==
    /\ ypc \in {"test", "join", "returned"}
    /\ yres # "not_running"
    /\ gpc[BackgroundThread] = "idle"
    /\ G_Call(BackgroundThread)

\* if (now() - start_time < timeout) ... else shutdown_thread.detach();
Y_Test ==
    /\ ypc = "test"
    /\ IF cnow - ystart < ytimeout
       THEN ypc' = "join" /\ UNCHANGED yres
       ELSE ypc' = "returned" /\ yres' = "detached"
    /\ UNCHANGED <<ytimeout, ystart, hrunning>>
    /\ TimeoutStep

\* shutdown_thread.join() returns: the background thread has ended
Y_Join ==
    /\ ypc = "join"
    /\ gpc[BackgroundThread] = "returned"
    /\ ypc' = "returned"
    /\ yres' = "joined"
    /\ UNCHANGED <<ytimeout, ystart, hrunning>>
    /\ TimeoutStep

\* nobody has called shutdown_with_timeout()
IdleTimeout ==
    /\ ypc = "idle"
    /\ ytimeout = 0
    /\ ystart = 0
    /\ yres = "none"

\* the application shuts the service down with shutdown() or with
\* shutdown_with_timeout(), whichever it calls first
NextTimeout ==
    \/ \E timeout \in Timeouts : Y_Call(timeout)
    \/ Y_Spawn
    \/ Y_Background
    \/ Y_Test
    \/ Y_Join
    \/ \E t \in ApplicationThreads : ypc = "idle" /\ G_Call(t)
    \/ ShutdownSteps
    \/ S_Notify
    \/ S_Join
    \/ IdleWorkers
    \/ SchedTick

-----------------------------------------------------------------------------
(* ServiceHost: StartService and CompleteServiceStartup, step by step *)
\* Both functions go through initialize_service(): init_nats(), which ends
\* the process with exit(1) when the connection fails, and a health check
\* that throws.  StartService then stores running_ = true and returns;
\* CompleteServiceStartup stores running_ = true and checks the health again.
\* stop() can be called by the application at any time.

StartupCalls == {"StartService", "CompleteServiceStartup"}

\* a step of the thread that starts the service
StartStep ==
    /\ ~crashed
    /\ UNCHANGED <<poolVars, cacheVars, procVars, schedVars, pubVars>>
    /\ UNCHANGED <<stopVars, recvVars, downVars, timeoutVars, permVars, registryVars, toggleVars, cancelVars>>
    /\ UNCHANGED <<perm_running, perm_id, watch, hsig, hsteps>>

\* is_healthy()
is_healthy == hrunning /\ conn = "open"

\* the application calls StartService(config) or CompleteServiceStartup(config)
U_Call(call) ==
    /\ hpc = "constructed"
    /\ ucall' = call
    /\ hpc' = "init_nats"
    /\ UNCHANGED <<ures, hrunning, conn>>
    /\ StartStep

\* initialize_service(): init_nats(): natsConnection_ConnectTo, and exit(1)
\* if it fails
U_Connect(connected) ==
    /\ hpc = "init_nats"
    /\ IF connected
       THEN /\ conn' = "open"
            /\ hpc' = "health"
            /\ UNCHANGED ures
       ELSE /\ hpc' = "exited"
            /\ ures' = "exit"
            /\ UNCHANGED conn
    /\ UNCHANGED <<ucall, hrunning>>
    /\ StartStep

\* initialize_service(): if (is_healthy()) ... else throw
U_Health ==
    /\ hpc = "health"
    /\ IF is_healthy
       THEN hpc' = "mark" /\ UNCHANGED ures
       ELSE hpc' = "failed" /\ ures' = "error"
    /\ UNCHANGED <<ucall, hrunning, conn>>
    /\ StartStep

\* running_ = true; StartService returns here
U_Mark ==
    /\ hpc = "mark"
    /\ hrunning' = TRUE
    /\ IF ucall = "StartService"
       THEN hpc' = "serving" /\ ures' = "ok"
       ELSE hpc' = "final" /\ UNCHANGED ures
    /\ UNCHANGED <<ucall, conn>>
    /\ StartStep

\* CompleteServiceStartup: if (is_healthy()) ... set_value() else throw,
\* which the catch hands to the promise
U_Final ==
    /\ hpc = "final"
    /\ IF is_healthy
       THEN hpc' = "serving" /\ ures' = "ok"
       ELSE hpc' = "failed" /\ ures' = "error"
    /\ UNCHANGED <<ucall, hrunning, conn>>
    /\ StartStep

\* stop(): running_ = false
U_Stop ==
    /\ hrunning
    /\ hpc # "exited"
    /\ hrunning' = FALSE
    /\ UNCHANGED <<ucall, ures, hpc, conn>>
    /\ StartStep

\* no startup function has been called
IdleStartup ==
    /\ ucall = "none"
    /\ ures = "none"

\* the workers of a pool that has no task and is not shut down
WaitingWorkers ==
    \/ \E w \in Workers : W_Lock(w)
    \/ \E w \in Workers : W_Pred(w)
    \/ \E w \in Workers : W_Block(w)

NextStartup ==
    \/ \E call \in StartupCalls : U_Call(call)
    \/ \E connected \in BOOLEAN : U_Connect(connected)
    \/ U_Health
    \/ U_Mark
    \/ U_Final
    \/ U_Stop
    \/ WaitingWorkers

-----------------------------------------------------------------------------
(* ServiceHost: StartPermanentTasks and StopPermanentTasks from several threads *)
\* permanent_tasks_running_ is atomic, but both functions load it and store
\* it in separate operations, and permanent_task_id_ is a plain member.

PermanentCallers == 1..NumPermanentCallers

\* a step of a thread inside StartPermanentTasks() or StopPermanentTasks()
PermStep ==
    /\ ~crashed
    /\ UNCHANGED <<poolVars, cacheVars, procVars, pubVars>>
    /\ UNCHANGED <<stopVars, recvVars, downVars, timeoutVars, startVars, registryVars, toggleVars, cancelVars>>
    /\ UNCHANGED <<hrunning, hpc, watch, conn, hsig, hsteps>>
    /\ UNCHANGED <<srunning, dpc, dready, dwake>>

\* StartPermanentTasks(config): if (permanent_tasks_running_.load()) return;
V_Start(t) ==
    /\ vpc[t] = "idle"
    /\ vcalls < MaxPermanentCalls
    /\ vcalls' = vcalls + 1
    /\ vop' = [vop EXCEPT ![t] = "start"]
    /\ vpc' = [vpc EXCEPT ![t] = IF perm_running THEN "idle" ELSE "store"]
    /\ UNCHANGED <<perm_running, perm_id, stasks, sinfo>>
    /\ PermStep

\* StartPermanentTasks(): permanent_tasks_running_.store(true)
V_StartStore(t) ==
    /\ vpc[t] = "store" /\ vop[t] = "start"
    /\ perm_running' = TRUE
    /\ vpc' = [vpc EXCEPT ![t] = "schedule"]
    /\ UNCHANGED <<vop, vcalls, perm_id, stasks, sinfo>>
    /\ PermStep

\* StartPermanentTasks(): permanent_task_id_ =
\* scheduler_->schedule_interval("permanent_maintenance", interval, body)
V_Schedule(t) ==
    /\ vpc[t] = "schedule"
    /\ NextTaskId <= NumSchedTasks
    /\ stasks' = Append(stasks,
           ScheduledTask(NextTaskId, "RECURRING", PermanentInterval, cnow))
    /\ sinfo' = [sinfo EXCEPT ![NextTaskId].mode = "RECURRING"]
    /\ perm_id' = NextTaskId
    /\ vpc' = [vpc EXCEPT ![t] = "idle"]
    /\ UNCHANGED <<vop, vcalls, perm_running>>
    /\ PermStep

\* StopPermanentTasks(): if (!permanent_tasks_running_.load()) return;
V_Stop(t) ==
    /\ vpc[t] = "idle"
    /\ vcalls < MaxPermanentCalls
    /\ vcalls' = vcalls + 1
    /\ vop' = [vop EXCEPT ![t] = "stop"]
    /\ vpc' = [vpc EXCEPT ![t] = IF perm_running THEN "store" ELSE "idle"]
    /\ UNCHANGED <<perm_running, perm_id, stasks, sinfo>>
    /\ PermStep

\* StopPermanentTasks(): permanent_tasks_running_.store(false)
V_StopStore(t) ==
    /\ vpc[t] = "store" /\ vop[t] = "stop"
    /\ perm_running' = FALSE
    /\ vpc' = [vpc EXCEPT ![t] = "cancel"]
    /\ UNCHANGED <<vop, vcalls, perm_id, stasks, sinfo>>
    /\ PermStep

\* StopPermanentTasks(): if (permanent_task_id_ != 0) {
\* scheduler_->cancel_task(permanent_task_id_); permanent_task_id_ = 0; }
V_Cancel(t) ==
    /\ vpc[t] = "cancel"
    /\ stasks' = IF perm_id # 0 THEN cancel_task(perm_id) ELSE stasks
    /\ perm_id' = 0
    /\ vpc' = [vpc EXCEPT ![t] = "idle"]
    /\ UNCHANGED <<vop, vcalls, perm_running, sinfo>>
    /\ PermStep

\* no thread has called StartPermanentTasks() or StopPermanentTasks()
IdlePermanent ==
    /\ vpc = [t \in PermanentCallers |-> "idle"]
    /\ vop = [t \in PermanentCallers |-> "none"]
    /\ vcalls = 0

NextPermanent ==
    \/ \E t \in PermanentCallers : V_Start(t)
    \/ \E t \in PermanentCallers : V_StartStore(t)
    \/ \E t \in PermanentCallers : V_Schedule(t)
    \/ \E t \in PermanentCallers : V_Stop(t)
    \/ \E t \in PermanentCallers : V_StopStore(t)
    \/ \E t \in PermanentCallers : V_Cancel(t)

-----------------------------------------------------------------------------
(* ServiceCache: the registry of named caches *)
\* get_cache() holds caches_mutex_ from its first statement to its return,
\* so create_cache() is one step.  A handle is a shared_ptr to the instance
\* the registry owns; it is identified by the instance it points to.

CacheNames == 1..NumCacheNames
KeyValueTypes == {"string,string", "int,double"}
CacheSizes == {0, 2}
CacheTTLs == {0, 1}
\* the keys the application puts into the caches it created
RegistryKeys == {1}

\* the max_size of a CacheConfig that was built without one
DefaultCacheSize == 1000

NoCache == [inst |-> 0, type |-> "none", max_size |-> 0, ttl |-> 0, items |-> {}]

\* a step of a thread that uses the registry
RegistryStep ==
    /\ ~crashed
    /\ UNCHANGED <<poolVars, cacheVars, procVars, schedVars, hostVars, pubVars>>
    /\ UNCHANGED <<stopVars, recvVars, downVars, timeoutVars, startVars, permVars, toggleVars, cancelVars>>

\* std::make_unique<CacheInstance<Key, Value>>(final_config)
NewCache(inst, type, capacity, ttl) ==
    [inst |-> inst, type |-> type,
     max_size |-> IF capacity = 0 THEN DefaultCacheSize ELSE capacity,
     ttl |-> ttl, items |-> {}]

\* a get_cache() that never looks the name up
get_cache_replacing(registry, name, type, capacity, ttl, fresh) ==
    [reg |-> [registry EXCEPT ![name] = NewCache(fresh, type, capacity, ttl)],
     ok |-> TRUE, inst |-> fresh]

\* get_cache<Key, Value>(name, config): the registry it leaves and the handle
\* it returns, or the runtime_error it throws (ok = FALSE)
get_cache(registry, name, type, capacity, ttl, fresh) ==
    IF registry[name].inst # 0
    THEN IF registry[name].type = type
         THEN [reg |-> registry, ok |-> TRUE, inst |-> registry[name].inst]
         ELSE [reg |-> registry, ok |-> FALSE, inst |-> 0]
    ELSE [reg |-> [registry EXCEPT ![name] = NewCache(fresh, type, capacity, ttl)],
          ok |-> TRUE, inst |-> fresh]

\* create_cache<Key, Value>(name, capacity, ttl)
R_Create(name, type, capacity, ttl) ==
    /\ ccalls < MaxCacheCreates
    /\ ccalls' = ccalls + 1
    /\ LET r == get_cache(caches, name, type, capacity, ttl, created + 1) IN
        /\ caches' = r.reg
        /\ created' = IF r.ok /\ r.inst = created + 1 THEN created + 1 ELSE created
        /\ clast' = [name |-> name, type |-> type, existed |-> caches[name].inst # 0,
                     ok |-> r.ok, inst |-> r.inst]
    /\ UNCHANGED <<clook, ci>>
    /\ RegistryStep

\* handle->put(key, value) on the cache registered under a name
R_Put(name, key) ==
    /\ caches[name].inst # 0
    /\ key \notin caches[name].items
    /\ Cardinality(caches[name].items) < caches[name].max_size
    /\ caches' = [caches EXCEPT ![name].items = @ \cup {key}]
    /\ UNCHANGED <<created, clast, clook, ccalls, ci>>
    /\ RegistryStep

\* get_cache_instance<Key, Value>(name): the handle of the registered
\* instance, or nullptr ("none") when the name is not registered and also
\* when the dynamic_cast to CacheInstance<Key, Value> fails
get_cache_instance(registry, name, type) ==
    IF registry[name].inst = 0
    THEN [res |-> "none", inst |-> 0]
    ELSE IF registry[name].type # type
         THEN [res |-> "none", inst |-> 0]
         ELSE [res |-> "handle", inst |-> registry[name].inst]

\* the application calls get_cache_instance<Key, Value>(name)
R_Lookup(name, type) ==
    /\ clook' = [name |-> name, type |-> type, registered |-> caches[name].type]
                    @@ get_cache_instance(caches, name, type)
    /\ clook' # clook
    /\ UNCHANGED <<caches, created, clast, ccalls, ci>>
    /\ RegistryStep

-----------------------------------------------------------------------------
(* ServiceCache::CacheInstance over seven::lru_cache *)
\* Every operation of seven::lru_cache holds its mutex_ from its first
\* statement to its return, so each call of the instance is one step.

InstanceKeys == 1..NumInstanceKeys
\* CacheConfig::ttl of the instance, in seconds
InstanceTTL == 1

\* CacheInstance(cfg): cache_(cfg.max_size, cfg.ttl), the counters at 0;
\* removed_capacity and removed_ttl count the entries that left the cache
\* because it was full and because they had expired
NewInstance ==
    [nodes |-> <<>>,
     stats |-> [hits |-> 0, misses |-> 0, evictions |-> 0],
     hits |-> 0, misses |-> 0, evictions |-> 0,
     removed_capacity |-> 0, removed_ttl |-> 0, ops |-> 0]

\* CacheNode::is_expired(): has_expiry && now > expiry_time
node_expired(node, now) == now > node.expiry

NodeIndex(nodes, key) == CHOOSE i \in 1..Len(nodes) : nodes[i].key = key
HasNode(nodes, key) == \E i \in 1..Len(nodes) : nodes[i].key = key
NodesWithout(nodes, i) == SubSeq(nodes, 1, i - 1) \o SubSeq(nodes, i + 1, Len(nodes))

\* cleanup_expired_internal(): erases every node with now > expiry_time and
\* counts nothing
cleanup_expired_internal(nodes, now) ==
    SelectSeq(nodes, LAMBDA node : ~node_expired(node, now))

\* a step of a thread that uses the instance
InstanceStep ==
    /\ ci.ops < MaxInstanceOps
    /\ UNCHANGED <<caches, created, clast, clook, ccalls>>
    /\ RegistryStep

\* CacheInstance::put(key, value): cache_.put(): an existing node is updated
\* and moved to the front; else, when nodes_.size() >= max_size_, evict_lru()
\* erases the last node and does ++stats_.evictions, and the node is put in
\* front
I_Put(key) ==
    /\ LET nodes == ci.nodes
           fresh == [key |-> key, expiry |-> cnow + InstanceTTL] IN
        IF HasNode(nodes, key)
        THEN ci' = [ci EXCEPT !.nodes = <<fresh>> \o NodesWithout(nodes, NodeIndex(nodes, key)),
                              !.ops = @ + 1]
        ELSE IF Len(nodes) >= InstanceCapacity
        THEN ci' = [ci EXCEPT !.nodes = <<fresh>> \o SubSeq(nodes, 1, Len(nodes) - 1),
                              !.stats.evictions = @ + 1,
                              !.removed_capacity = @ + 1,
                              !.ops = @ + 1]
        ELSE ci' = [ci EXCEPT !.nodes = <<fresh>> \o nodes, !.ops = @ + 1]
    /\ InstanceStep

\* CacheInstance::get(key): cache_.get(), then hits_ or misses_ of the
\* instance; an expired node is erased by the get
I_Get(key) ==
    /\ LET nodes == ci.nodes IN
        IF ~HasNode(nodes, key)
        THEN ci' = [ci EXCEPT !.stats.misses = @ + 1, !.misses = @ + 1, !.ops = @ + 1]
        ELSE LET i == NodeIndex(nodes, key) IN
             IF node_expired(nodes[i], cnow)
             THEN ci' = [ci EXCEPT !.nodes = NodesWithout(nodes, i),
                                   !.stats.misses = @ + 1, !.misses = @ + 1,
                                   !.removed_ttl = @ + 1,
                                   !.ops = @ + 1]
             ELSE ci' = [ci EXCEPT !.nodes = <<nodes[i]>> \o NodesWithout(nodes, i),
                                   !.stats.hits = @ + 1, !.hits = @ + 1,
                                   !.ops = @ + 1]
    /\ InstanceStep

\* CacheInstance::cleanup_expired(): size before, cache_.cleanup_expired(),
\* size after, evictions_.fetch_add(size_before - size_after)
I_Cleanup ==
    /\ LET kept == cleanup_expired_internal(ci.nodes, cnow)
           cleaned == Len(ci.nodes) - Len(kept) IN
        ci' = [ci EXCEPT !.nodes = kept,
                         !.evictions = @ + cleaned,
                         !.removed_ttl = @ + cleaned,
                         !.ops = @ + 1]
    /\ InstanceStep

\* CacheInstance::get_stats().evictions
get_stats_evictions == ci.evictions

\* time goes by while the instance is in use
I_Tick ==
    /\ ~crashed
    /\ cnow < MaxInstanceTime
    /\ cnow' = cnow + 1
    /\ UNCHANGED <<crashed, poolVars, cacheVars, schedVars, hostVars, pubVars, callVars>>

NextInstance ==
    \/ \E key \in InstanceKeys : I_Put(key)
    \/ \E key \in InstanceKeys : I_Get(key)
    \/ I_Cleanup
    \/ I_Tick

\* ServiceCache(host): no cache is registered
InitRegistry ==
    /\ caches = [n \in CacheNames |-> NoCache]
    /\ created = 0
    /\ clast = [name |-> 0, type |-> "none", existed |-> FALSE, ok |-> TRUE, inst |-> 0]
    /\ clook = [name |-> 0, type |-> "none", registered |-> "none",
                res |-> "none", inst |-> 0]
    /\ ci = NewInstance
    /\ ccalls = 0

NextRegistry ==
    \/ \E name \in CacheNames, type \in KeyValueTypes, capacity \in CacheSizes,
          ttl \in CacheTTLs : R_Create(name, type, capacity, ttl)
    \/ \E name \in CacheNames, key \in RegistryKeys : R_Put(name, key)

NextLookup ==
    \/ \E name \in CacheNames, type \in KeyValueTypes, capacity \in CacheSizes,
          ttl \in CacheTTLs : R_Create(name, type, capacity, ttl)
    \/ \E name \in CacheNames, type \in KeyValueTypes : R_Lookup(name, type)

-----------------------------------------------------------------------------
(* ServiceHost: tracing toggle, publish and subscriptions *)
\* The bus delivers a published message once to every subscription whose
\* subject equals the subject of the message (no subscription of the code
\* uses a wildcard).  A subject is the sequence of the pieces the code
\* concatenates.

Services == 1..NumServices
Publishers == 1..NumPublishers
Types == {"Trevor.HealthCheckRequest"}
Routings == {"Broadcast", "PointToPoint"}

\* the messages a publish call can carry: broadcasts (target 0) and
\* point-to-point messages to the uid of a service
Messages == ({"broadcast"} \X Types \X {0}) \cup ({"p2p"} \X Types \X Services)

\* what enable_tracing() / disable_tracing() store in the two pointers
ImplNeverTraced(toggle) == "fast"

ImplFor(toggle) == IF toggle = "enable" THEN "traced" ELSE "fast"

\* "broadcast." + type_name, in publish_broadcast_fast and publish_broadcast_traced
PublishBroadcastSubject(impl, type) == <<"broadcast.", type>>

\* "p2p." + target_uid + "." + type_name, in both point-to-point implementations
PublishP2PSubject(impl, uid, type) == <<"p2p.", uid, ".", type>>

\* "system.broadcast." + type_name, in subscribe_broadcast_V2
SubscribeBroadcastSubject(type) == <<"system.broadcast.", type>>

\* "system.direct." + uid_ + "." + type_name, in subscribe_point_to_point_V2
SubscribeP2PSubject(uid, type) == <<"system.direct.", uid, ".", type>>

\* the subscriptions register_message() has made for service svc (its uid is svc)
Subscriptions(svc) ==
    {SubscribeBroadcastSubject(t) : t \in {x \in Types : reg[svc][x] = "Broadcast"}}
    \cup {SubscribeP2PSubject(svc, t) : t \in {x \in Types : reg[svc][x] = "PointToPoint"}}

\* the type name the subscription callback cuts out of the subject:
\* subj.substr(prefix.size())
TypeOfSubject(subject) == subject[Len(subject)]

\* the subject a publish call sends on
SubjectOf(call) ==
    IF call.kind = "broadcast"
    THEN PublishBroadcastSubject(call.impl, call.type)
    ELSE PublishP2PSubject(call.impl, call.target, call.type)

\* receive_message() calls the delivery of one message with that subject makes
Delivered(subject) ==
    [svc \in Services |-> [t \in Types |->
        IF subject \in Subscriptions(svc) /\ TypeOfSubject(subject) = t
        THEN recv[svc][t] + 1 ELSE recv[svc][t]]]

PubStep == ~crashed /\ UNCHANGED <<poolVars, cacheVars, procVars, schedVars, hostVars, callVars>>

\* enable_tracing() or disable_tracing() is called
T_Call(toggle) ==
    /\ tpc = "idle"
    /\ tstarted < MaxToggles
    /\ tstarted' = tstarted + 1
    /\ tgoal' = toggle
    /\ tpc' = "flag"
    /\ UNCHANGED <<tracing_enabled, bimpl, pimpl, tlast, ppc, pcall, issued, ran, reg, sent, recv>>
    /\ PubStep

\* tracing_enabled_ = true / false
T_Flag ==
    /\ tpc = "flag"
    /\ tracing_enabled' = (tgoal = "enable")
    /\ tpc' = "broadcast"
    /\ UNCHANGED <<bimpl, pimpl, tgoal, tlast, tstarted, ppc, pcall, issued, ran, reg, sent, recv>>
    /\ PubStep

\* publish_broadcast_impl_ = &ServiceHost::publish_broadcast_traced / _fast
T_Broadcast ==
    /\ tpc = "broadcast"
    /\ bimpl' = ImplFor(tgoal)
    /\ tpc' = "p2p"
    /\ UNCHANGED <<tracing_enabled, pimpl, tgoal, tlast, tstarted, ppc, pcall, issued, ran, reg, sent, recv>>
    /\ PubStep

\* publish_point_to_point_impl_ = &ServiceHost::publish_point_to_point_traced / _fast;
\* the toggle returns
T_P2P ==
    /\ tpc = "p2p"
    /\ pimpl' = ImplFor(tgoal)
    /\ tlast' = tgoal
    /\ tpc' = "idle"
    /\ UNCHANGED <<tracing_enabled, bimpl, tgoal, tstarted, ppc, pcall, issued, ran, reg, sent, recv>>
    /\ PubStep

NoCall == [kind |-> "none", type |-> "none", target |-> 0, impl |-> "none",
           quiet |-> FALSE, after |-> "none", toggles |-> 0]

\* a thread calls publish_broadcast(msg) or publish_point_to_point(uid, msg);
\* the call remembers the toggles that had returned when it was issued
P_Call(p, kind, type, target) ==
    /\ ppc[p] = "idle"
    /\ issued < MaxPublishes
    /\ issued' = issued + 1
    /\ pcall' = [pcall EXCEPT ![p] =
                    [kind |-> kind, type |-> type, target |-> target, impl |-> "none",
                     quiet |-> tpc = "idle", after |-> tlast, toggles |-> tstarted]]
    /\ ppc' = [ppc EXCEPT ![p] = "load"]
    /\ UNCHANGED <<tracing_enabled, bimpl, pimpl, tpc, tgoal, tlast, tstarted, ran, reg, sent, recv>>
    /\ PubStep

\* (this->*publish_broadcast_impl_)(message): the pointer is read
P_Load(p) ==
    /\ ppc[p] = "load"
    /\ pcall' = [pcall EXCEPT
                    ![p].impl = IF pcall[p].kind = "broadcast" THEN bimpl ELSE pimpl,
                    ![p].quiet = @ /\ tpc = "idle" /\ tstarted = pcall[p].toggles]
    /\ ppc' = [ppc EXCEPT ![p] = "run"]
    /\ UNCHANGED <<tracing_enabled, bimpl, pimpl, tpc, tgoal, tlast, tstarted, issued, ran, reg, sent, recv>>
    /\ PubStep

\* the body of the implementation the pointer named: the message is
\* serialized and published on its subject, and the bus delivers it
P_Run(p) ==
    /\ ppc[p] = "run"
    /\ ran' = [ran EXCEPT ![pcall[p].impl] = @ + 1]
    /\ IF conn = "open"
       THEN /\ sent' = [sent EXCEPT ![<<pcall[p].kind, pcall[p].type, pcall[p].target>>] = @ + 1]
            /\ recv' = Delivered(SubjectOf(pcall[p]))
       ELSE UNCHANGED <<sent, recv>>
    /\ ppc' = [ppc EXCEPT ![p] = "idle"]
    /\ pcall' = [pcall EXCEPT ![p] = NoCall]
    /\ UNCHANGED <<tracing_enabled, bimpl, pimpl, tpc, tgoal, tlast, tstarted, issued, reg>>
    /\ PubStep

\* ServiceHost(uid, name): tracing off, both pointers on the fast
\* implementations; nothing registered, nothing published
IdlePub ==
    /\ tracing_enabled = FALSE
    /\ bimpl = "fast"
    /\ pimpl = "fast"
    /\ tpc = "idle"
    /\ tgoal = "none"
    /\ tlast = "none"
    /\ tstarted = 0
    /\ ppc = [p \in Publishers |-> "idle"]
    /\ pcall = [p \in Publishers |-> NoCall]
    /\ issued = 0
    /\ ran = [impl \in {"fast", "traced"} |-> 0]
    /\ reg = [svc \in Services |-> [t \in Types |-> "none"]]
    /\ sent = [m \in Messages |-> 0]
    /\ recv = [svc \in Services |-> [t \in Types |-> 0]]

\* the services of a deployment, connected, each with its register_message()
\* calls made: every service registers every type with some routing or not at all
InitPub ==
    /\ tracing_enabled = FALSE
    /\ bimpl = "fast"
    /\ pimpl = "fast"
    /\ tpc = "idle"
    /\ tgoal = "none"
    /\ tlast = "none"
    /\ tstarted = 0
    /\ ppc = [p \in Publishers |-> "idle"]
    /\ pcall = [p \in Publishers |-> NoCall]
    /\ issued = 0
    /\ ran = [impl \in {"fast", "traced"} |-> 0]
    /\ reg \in [Services -> [Types -> Routings \cup {"none"}]]
    /\ sent = [m \in Messages |-> 0]
    /\ recv = [svc \in Services |-> [t \in Types |-> 0]]

\* a host after StartService(): connected and running
InitConnected ==
    /\ hrunning = TRUE
    /\ hpc = "serving"
    /\ perm_running = FALSE
    /\ perm_id = 0
    /\ watch = "off"
    /\ conn = "open"
    /\ hsig = FALSE
    /\ hsteps = <<>>

\* the threads of the application that switch tracing on and off
Togglers == 1..NumTogglers

NoToggle == [pc |-> "idle", goal |-> "none"]

IdleToggle == tog = [th \in Togglers |-> NoToggle]

\* no enable_tracing() / disable_tracing() call is in progress
NoToggleInProgress == \A th \in Togglers : tog[th].pc = "idle"

ToggleStep ==
    /\ ~crashed
    /\ tpc = "idle"
    /\ UNCHANGED <<tpc, tgoal, ppc, pcall, issued, ran, reg, sent, recv>>
    /\ UNCHANGED <<poolVars, cacheVars, procVars, schedVars, hostVars>>
    /\ UNCHANGED <<stopVars, recvVars, downVars, timeoutVars, startVars, permVars, registryVars, cancelVars>>

\* thread th calls enable_tracing() or disable_tracing(); neither takes a lock
E_Call(th, toggle) ==
    /\ tog[th].pc = "idle"
    /\ tstarted < MaxToggles
    /\ tstarted' = tstarted + 1
    /\ tog' = [tog EXCEPT ![th] = [pc |-> "flag", goal |-> toggle]]
    /\ UNCHANGED <<tracing_enabled, bimpl, pimpl, tlast>>
    /\ ToggleStep

\* tracing_enabled_ = true / false
E_Flag(th) ==
    /\ tog[th].pc = "flag"
    /\ tracing_enabled' = (tog[th].goal = "enable")
    /\ tog' = [tog EXCEPT ![th].pc = "broadcast"]
    /\ UNCHANGED <<bimpl, pimpl, tlast, tstarted>>
    /\ ToggleStep

\* publish_broadcast_impl_ = &ServiceHost::publish_broadcast_traced / _fast
E_Broadcast(th) ==
    /\ tog[th].pc = "broadcast"
    /\ bimpl' = ImplFor(tog[th].goal)
    /\ tog' = [tog EXCEPT ![th].pc = "p2p"]
    /\ UNCHANGED <<tracing_enabled, pimpl, tlast, tstarted>>
    /\ ToggleStep

\* publish_point_to_point_impl_ = &ServiceHost::publish_point_to_point_traced
\* / _fast, and the call returns
E_P2P(th) ==
    /\ tog[th].pc = "p2p"
    /\ pimpl' = ImplFor(tog[th].goal)
    /\ tlast' = tog[th].goal
    /\ tog' = [tog EXCEPT ![th] = NoToggle]
    /\ UNCHANGED <<tracing_enabled, bimpl, tstarted>>
    /\ ToggleStep

NextToggle ==
    \/ \E th \in Togglers, toggle \in {"enable", "disable"} : E_Call(th, toggle)
    \/ \E th \in Togglers : E_Flag(th)
    \/ \E th \in Togglers : E_Broadcast(th)
    \/ \E th \in Togglers : E_P2P(th)

NextPub ==
    \/ \E toggle \in {"enable", "disable"} : T_Call(toggle)
    \/ T_Flag
    \/ T_Broadcast
    \/ T_P2P
    \/ \E p \in Publishers, t \in Types : P_Call(p, "broadcast", t, 0)
    \/ \E p \in Publishers, t \in Types, uid \in Services : P_Call(p, "p2p", t, uid)
    \/ \E p \in Publishers : P_Load(p)
    \/ \E p \in Publishers : P_Run(p)

-----------------------------------------------------------------------------
(* Specifications *)

\* no thread of the service has called into a component yet
IdleCalls ==
    /\ xpc = "idle"
    /\ xcalls = 0
    /\ xres = "none"
    /\ IdleReceive
    /\ IdleShutdown
    /\ IdleTimeout
    /\ IdleStartup
    /\ IdlePermanent
    /\ IdleToggle
    /\ IdleCancel
    /\ InitRegistry

\* a pool in a process whose cache is not used
InitPoolOnly == InitPool /\ IdleCache /\ InitProc /\ IdleSched /\ InitHost /\ IdlePub /\ IdleCalls

SpecPool == InitPoolOnly /\ [][NextPool]_vars

\* a pool of one or more workers that a single thread submits to
InitPoolOrdered == InitPoolSized /\ IdleCache /\ InitProc /\ IdleSched /\ InitHost /\ IdlePub /\ IdleCalls

SpecPoolOrdered == InitPoolOrdered /\ [][NextPoolOrdered]_vars

\* a cache in a process whose pool is not used
InitCacheOnly == InitCache /\ InitPool /\ InitProc /\ IdleSched /\ InitHost /\ IdlePub /\ IdleCalls

SpecCache == InitCacheOnly /\ [][NextCache]_vars

\* the same cache, used with TTLs over a longer time
SpecCacheTTL == InitCacheOnly /\ [][NextCacheTTL]_vars
SpecCacheStats == InitCacheOnly /\ [][NextCacheStats]_vars

\* a scheduler and its pool in a process whose cache is not used
InitSchedPool == InitSched /\ InitPool /\ InitProc /\ IdleCache /\ InitHost /\ IdlePub /\ IdleCalls

SpecSched == InitSchedPool /\ [][NextSched]_vars

\* a scheduler of conditional tasks and its pool
InitSchedCond ==
    InitSchedConditional /\ InitPool /\ InitProc /\ IdleCache /\ InitHost /\ IdlePub
    /\ IdleCalls

SpecSchedCond == InitSchedCond /\ [][NextSchedConditional]_vars

\* a scheduler that is built empty and used while it runs
InitSchedEmpty == IdleSched /\ InitPool /\ InitProc /\ IdleCache /\ InitHost /\ IdlePub /\ IdleCalls

SpecSchedCalls == InitSchedEmpty /\ [][NextSchedCalls]_vars

\* a service host with its pool and its scheduler
InitService == InitHost /\ InitPool /\ IdleSched /\ InitProc /\ IdleCache /\ IdlePub /\ IdleCalls

SpecHost == InitService /\ [][NextHost]_vars

\* the publishing side of connected services
InitPublishing == InitPub /\ InitConnected /\ InitPool /\ IdleSched /\ InitProc /\ IdleCache /\ IdleCalls

SpecPub == InitPublishing /\ [][NextPub]_vars

\* a connected host whose application threads switch tracing on and off
SpecToggle == InitPublishing /\ [][NextToggle]_vars

\* the pool with its worker threads scheduled fairly
SpecPoolLive == InitPoolOnly /\ [][NextPool]_vars /\ PoolFairness

\* a scheduler of recurring tasks that is started and stopped, all threads
\* scheduled fairly
InitSchedStop ==
    InitSchedRecurring /\ InitPool /\ InitProc /\ IdleCache /\ InitHost /\ IdlePub
    /\ IdleCalls

SpecSchedStop == InitSchedStop /\ [][NextSchedStop]_vars /\ StopFairness

\* a scheduler of recurring tasks that are cancelled while it runs
SpecCancel == InitSchedStop /\ [][NextCancel]_vars

\* a scheduler of recurring tasks whose pool is shut down while it runs
SpecSchedPoolDown == InitSchedStop /\ [][NextSchedPoolDown]_vars

\* a host that is constructed and handed messages by the application
SpecReceive == InitService /\ [][NextReceive]_vars

\* a connected host that registers handlers and gets its messages from the bus
InitSubscribed ==
    InitConnected /\ InitPool /\ IdleSched /\ InitProc /\ IdleCache /\ IdlePub /\ IdleCalls

SpecSubscribed == InitSubscribed /\ [][NextSubscribed]_vars

\* a running, connected host with threads that call shutdown()
InitShutdownCalls ==
    /\ InitConnected /\ InitPool /\ IdleSched /\ InitProc /\ IdleCache /\ IdlePub
    /\ xpc = "idle" /\ xcalls = 0 /\ xres = "none"
    /\ IdleReceive
    /\ InitShutdown
    /\ IdleTimeout
    /\ IdleStartup
    /\ IdlePermanent
    /\ InitRegistry
    /\ IdleToggle
    /\ IdleCancel

SpecShutdownCalls == InitShutdownCalls /\ [][NextShutdownCalls]_vars

\* the same host, shut down with or without a timeout
SpecTimeout == InitShutdownCalls /\ [][NextTimeout]_vars

\* a constructed host that is started step by step
SpecStartup == InitService /\ [][NextStartup]_vars

\* a running host whose threads start and stop the permanent tasks
SpecPermanent == InitSubscribed /\ [][NextPermanent]_vars

\* the cache registry of a constructed host
SpecRegistry == InitService /\ [][NextRegistry]_vars
SpecLookup == InitService /\ [][NextLookup]_vars
SpecInstance == InitService /\ [][NextInstance]_vars

\* the same host, started, stopped and shut down while messages arrive
SpecReceiveStop == InitService /\ [][NextReceiveStop]_vars

Spec == SpecPool

-----------------------------------------------------------------------------
(* Properties of the ThreadPool *)

InQueue(h) == \E i \in 1..Len(tasks) : tasks[i] = h
RunningOn(h) == {w \in Workers : wpc[w] = "run" /\ wtask[w] = h}
\* number of times task t was taken out of the queue to be run
Runs(t) == execs[t] + Cardinality(RunningOn(Plain(t)))

\* C1: in every interleaving of submit calls, the workers and a shutdown call:
\* a task is never run twice, a task whose submit returned false is never
\* queued nor run, and when shutdown has returned every task whose submit
\* returned true (or is about to) has completed exactly one run.
C1_AcceptedRunOnceBeforeShutdownReturns ==
    /\ \A t \in PlainTasks : Runs(t) + (IF InQueue(Plain(t)) THEN 1 ELSE 0) <= 1
    /\ \A t \in PlainTasks :
          accepted[t] = "false" => (Runs(t) = 0 /\ ~InQueue(Plain(t)))
    /\ spc = "returned" =>
          \A t \in PlainTasks :
             (accepted[t] = "true" \/ cpc[t] = "push") => execs[t] = 1

\* a shutdown has returned after one task was accepted and run and one refused
C1_Witness ==
    /\ spc = "returned"
    /\ \E t \in PlainTasks : accepted[t] = "true" /\ execs[t] = 1
    /\ \E t \in PlainTasks : accepted[t] = "false"

\* C2: shutdown wakes all workers and terminates: whenever a shutdown call is
\* past its flag set (about to notify, or joining), the pool can still take a
\* step that does not depend on a spurious wakeup; no state is reached where
\* shutdown is blocked in join with a worker blocked in the wait.
C2_ShutdownNeverStuck ==
    spc \in {"notify", "join"} => ENABLED PoolProgress

\* C10, the step of submit that reads done: the task is refused exactly when
\* done is set, and a refusal leaves the queue as it was.
C10_CheckStep ==
    \A t \in PlainTasks :
       (cpc[t] = "locked" /\ cpc'[t] # "locked") =>
          IF done
          THEN accepted'[t] = "false" /\ tasks' = tasks /\ cpc'[t] = "returned"
          ELSE accepted'[t] = "none" /\ cpc'[t] = "push"

\* C10, the step of submit that enqueues: the task is appended and true returned
C10_PushStep ==
    \A t \in PlainTasks :
       (cpc[t] = "push" /\ cpc'[t] # "push") =>
          tasks' = Append(tasks, Plain(t)) /\ accepted'[t] = "true"

\* C10, in every state: a refused task is neither queued nor run and done is
\* set; an accepted push is enabled whatever the length of the queue.
C10_State ==
    \A t \in PlainTasks :
       /\ accepted[t] = "false" => (done /\ Runs(t) = 0 /\ ~InQueue(Plain(t)))
       /\ cpc[t] = "push" => ENABLED C_Push(t)

\* C10: submit returns false exactly when the done flag is set when it reads
\* it, then leaves the queue unchanged and the task is never run; otherwise it
\* returns true and appends the task without waiting for queue capacity.
C10_SubmitRefusedIffDone == [](C10_State) /\ [][C10_CheckStep /\ C10_PushStep]_vars

\* one submit was refused after shutdown began and another was accepted while
\* a task was already queued
C10_Witness ==
    /\ \E t \in PlainTasks : accepted[t] = "false"
    /\ \E t \in PlainTasks : accepted[t] = "true" /\ Len(tasks) = 2

\* C11, in every state: no worker has left its loop before shutdown set done
C11_WorkersLive == (\E w \in Workers : wpc[w] = "exited") => done

\* C11, the step in which a task throws: the worker that ran it is back at the
\* top of its loop, the queue and the shutdown call are as they were and the
\* process is alive.
C11_ThrowStep ==
    \A t \in PlainTasks :
       (execs'[t] = execs[t] + 1 /\ tres'[t] = "threw") =>
          /\ \A w \in RunningOn(Plain(t)) : wpc'[w] = "start"
          /\ tasks' = tasks
          /\ spc' = spc
          /\ ~crashed'

\* C11: a task that throws does not end its worker: no worker exits before
\* shutdown, the throw reaches neither the worker loop nor shutdown(), and
\* every task that is queued once a task has thrown is still executed.
C11_ThrowKeepsWorker ==
    /\ []C11_WorkersLive
    /\ [][C11_ThrowStep]_vars
    /\ \A t \in PlainTasks :
          (InQueue(Plain(t)) /\ \E u \in PlainTasks : tres[u] = "threw") ~> (execs[t] = 1)

\* two tasks have thrown, a third has run to its end and no shutdown was called
C11_Witness ==
    /\ ~done
    /\ \E t, u, v \in PlainTasks :
          /\ t # u
          /\ tres[t] = "threw" /\ tres[u] = "threw"
          /\ tres[v] = "returned" /\ execs[v] = 1
    /\ \A w \in Workers : wpc[w] # "exited"

-----------------------------------------------------------------------------
(* Properties of the LRUCache *)

\* C4: between operations (after any sequence of put, get, remove, clear,
\* resize and cleanup) the cache holds at most max_size entries, cache_list_
\* and cache_map_ hold the same keys, no key occurs twice in the list, and
\* size() is the number of keys get_keys() returns.
C4_CacheInvariants ==
    /\ size <= max_size
    /\ cache_map = ListKeys(cache_list)
    /\ \A i, j \in 1..Len(cache_list) : cache_list[i].key = cache_list[j].key => i = j
    /\ size = Len(get_keys)

\* a resized cache that has expired an entry and evicted one is full after a put
C4_Witness ==
    /\ cop.op = "put"
    /\ max_size < MaxCapacity
    /\ size = max_size
    /\ evictions >= 1
    /\ expirations >= 1
    /\ ~crashed

LiveEntries(list, now) == SelectSeq(list, LAMBDA e : e.expiry > now)

\* C5: a put of a new key into a full cache that returns leaves the new entry
\* in front of the entries that were not expired; it evicts the tail of
\* those, counting one eviction, only when they still fill the cache.
C5_PutStep ==
    (/\ cops' = cops + 1
     /\ cop'.op = "put"
     /\ cop'.key \notin cache_map
     /\ Len(cache_list) >= max_size
     /\ ~crashed') =>
        LET live == LiveEntries(cache_list, cnow) IN
        /\ cache_list' # <<>>
        /\ Head(cache_list').key = cop'.key
        /\ IF Len(live) >= max_size
           THEN /\ Tail(cache_list') = SubSeq(live, 1, Len(live) - 1)
                /\ evictions' = evictions + 1
           ELSE /\ Tail(cache_list') = live
                /\ evictions' = evictions

C5_PutExpiresThenEvicts == [][C5_PutStep]_vars

\* the expiry the TTL rules give an entry put at `now` with argument ttl
\* (MillisMax: no explicit TTL) into a cache whose default TTL is dflt
ExpiryByRule(ttl, dflt, now) ==
    IF ttl # MillisMax THEN now + ttl
    ELSE IF dflt # MillisMax THEN now + dflt
    ELSE TimePointMax

\* C12, the step of put(k, v, ttl) that returns: the entry of k is in front
\* with the expiry the rules give it, and every other entry the cache still
\* holds is as it was.
C12_PutStep ==
    \A k \in Keys, v \in Values, ttl \in TTLs :
       (CachePut(k, v, ttl) /\ ~crashed') =>
          /\ cache_list' # <<>>
          /\ Head(cache_list').key = k
          /\ Head(cache_list').expiry = ExpiryByRule(ttl, default_ttl, cnow)
          /\ \A i \in 2..Len(cache_list') :
                \E j \in 1..Len(cache_list) : cache_list[j] = cache_list'[i]

\* C12: an entry put without an explicit TTL expires default_ttl after the put
\* when default_ttl is finite and never when it is infinite; an explicit
\* TTL sets the expiry of that entry only.
C12_PutUsesDefaultTTL == [][C12_PutStep]_vars

\* C13, the step of get(k) for a key the cache holds: past the expiry of the
\* entry the get returns none, counts one miss and no hit and removes the
\* entry; before the expiry it returns the value stored.
C13_GetStep ==
    (/\ cops' = cops + 1
     /\ cop'.op = "get"
     /\ cop'.key \in cache_map) =>
        LET k == cop'.key
            entry == cache_list[NodeOf(cache_list, k)]
        IN /\ entry.expiry < cnow =>
                /\ cop'.res = "nullopt"
                /\ misses' = misses + 1
                /\ hits' = hits
                /\ Len(cache_list') = Len(cache_list) - 1
                /\ k \notin ListKeys(cache_list')
                /\ k \notin cache_map'
           /\ entry.expiry > cnow =>
                /\ cop'.res = entry.value
                /\ Len(cache_list') = Len(cache_list)
                /\ misses' = misses

C13_GetAfterExpiryIsMiss == [][C13_GetStep]_vars

\* a get issued after the expiry of an entry put with a TTL returned none and
\* left the cache empty, after an earlier get had returned the value
C13_Witness ==
    /\ cop.op = "get"
    /\ cop.res = "nullopt"
    /\ expirations = 1
    /\ misses = 1
    /\ hits = 1
    /\ cnow >= 2
    /\ cache_list = <<>>
    /\ cops = 3

\* the list without the entry of key k
Without(list, k) == SelectSeq(list, LAMBDA e : e.key # k)

\* C14, the step of get(k): when it returns a value k is the first key of
\* get_keys() and the other keys follow in the order they had; when k is
\* absent the order is as it was.
C14_GetStep ==
    (/\ cops' = cops + 1
     /\ cop'.op = "get") =>
        LET k == cop'.key IN
        IF cop'.res # "nullopt"
        THEN /\ cache_list' # <<>>
             /\ Head(cache_list').key = k
             /\ Tail(cache_list') = Without(cache_list, k)
        ELSE k \notin cache_map => cache_list' = cache_list

C14_GetMovesToFront == [][C14_GetStep]_vars

\* a get has moved the last of three keys to the front
C14_Witness ==
    /\ cop.op = "get"
    /\ cop.res # "nullopt"
    /\ hits = 1
    /\ cops = 4
    /\ Len(cache_list) = 3
    /\ cache_list[1].key = cop.key
    /\ cache_list[1].key < cache_list[2].key
    /\ cache_list[2].key > cache_list[3].key

\* C33, the step of resize(n): with 1 <= n < size() the n most recently used
\* entries stay in their order, the size() - n others are removed and
\* counted as evictions; with n >= size() nothing is removed; resize(0) fails
\* and leaves capacity and contents as they were.
C33_ResizeStep ==
    (/\ cops' = cops + 1
     /\ cop'.op = "resize") =>
        LET n == cop'.key IN
        IF n = 0
        THEN /\ cop'.res = "invalid_argument"
             /\ max_size' = max_size
             /\ cache_list' = cache_list
             /\ cache_map' = cache_map
             /\ evictions' = evictions
        ELSE /\ cop'.res = "void"
             /\ max_size' = n
             /\ IF n < Len(cache_list)
                THEN /\ cache_list' = SubSeq(cache_list, 1, n)
                     /\ cache_map' = ListKeys(SubSeq(cache_list, 1, n))
                     /\ Len(cache_list) - Len(cache_list') = Len(cache_list) - n
                     /\ evictions' = evictions + (Len(cache_list) - n)
                ELSE /\ cache_list' = cache_list
                     /\ cache_map' = cache_map
                     /\ evictions' = evictions

\* C33: resize(n) below size() evicts exactly the size() - n least recently
\* used entries, resize(n) at or above size() removes nothing, and resize(0)
\* fails without changing the cache.
C33_ResizeEvictsFromTail == [][C33_ResizeStep]_vars

\* a resize(1) of a cache of three entries has evicted two of them
C33_Witness ==
    /\ cop.op = "resize"
    /\ cop.key = 1
    /\ cops = 4
    /\ evictions = 2
    /\ Len(cache_list) = 1
    /\ max_size = 1

\* C34, one step of an operation: a get adds one to hits when it returns a
\* value and one to misses when it returns none, and leaves the other
\* counter; every other operation leaves both; contains also leaves the
\* recency list and the index.  Both counters start at 0, so hits + misses
\* is the number of get calls that have returned.
C34_CounterStep ==
    (cops' = cops + 1) =>
        /\ cop'.op = "get" =>
              IF cop'.res # "nullopt"
              THEN hits' = hits + 1 /\ misses' = misses
              ELSE hits' = hits /\ misses' = misses + 1
        /\ cop'.op # "get" => (hits' = hits /\ misses' = misses)
        /\ cop'.op = "contains" =>
              (cache_list' = cache_list /\ cache_map' = cache_map)

\* C34: every get counts exactly one hit or one miss, a hit exactly when it
\* returns a value; no other operation changes hits or misses, and contains
\* changes neither the recency order nor the contents.
C34_GetCountsOnce == [][C34_CounterStep]_vars

\* a contains of a stored key has answered after a hit and a miss were counted
C34_Witness ==
    /\ cop.op = "contains"
    /\ cop.res = TRUE
    /\ hits = 1
    /\ misses = 1
    /\ Len(cache_list) = 2
    /\ cache_list[2].key = cop.key

\* C35, the step of put(k, v, ttl) on a key the cache holds: the entry of k
\* is in front with the new value and the expiry of this put, the other
\* entries follow in their order, and size() and evictions are as they were.
C35_PutExistingStep ==
    \A k \in SleepKeys, v \in Values, ttl \in TTLs :
       (CachePut(k, v, ttl) /\ k \in cache_map) =>
          /\ ~crashed'
          /\ cache_list' = <<CacheEntry(k, v, PutExpiry(ttl, cnow))>> \o Without(cache_list, k)
          /\ Len(cache_list') = Len(cache_list)
          /\ cache_map' = cache_map
          /\ evictions' = evictions

\* the step of put(k, v, ttl) on a key the cache does not hold, when the put
\* returns: the new entry is in front
C35_PutNewStep ==
    \A k \in SleepKeys, v \in Values, ttl \in TTLs :
       (CachePut(k, v, ttl) /\ k \notin cache_map /\ ~crashed') =>
          /\ cache_list' # <<>>
          /\ Head(cache_list') = CacheEntry(k, v, PutExpiry(ttl, cnow))

-----------------------------------------------------------------------------
(* Properties of the ThreadPool: order *)

\* task t was accepted and a worker has moved it out of the queue
Dequeued(t) == accepted[t] = "true" /\ ~InQueue(Plain(t))

\* C36: of two tasks one thread submitted, the second is not taken out of the
\* queue before the first (the queue holds them in submission order), and in
\* a pool of one worker the first has finished when the second starts.
C36_FifoDequeue ==
    /\ \A i, j \in 1..Len(tasks) : i < j => tasks[i].id < tasks[j].id
    /\ \A t, u \in PlainTasks :
          (t < u /\ Dequeued(u)) =>
              /\ Dequeued(t)
              /\ PoolSize = 1 => execs[t] > 0

\* in a pool of one worker the first task has run, the second is running and
\* the third is queued
C36_Witness ==
    /\ PoolSize = 1
    /\ execs[1] = 1
    /\ wpc[1] = "run" /\ wtask[1] = Plain(2)
    /\ tasks = <<Plain(3)>>

-----------------------------------------------------------------------------
(* Properties of the ServiceScheduler *)

\* C3: a OneShot task whose function has not thrown is submitted to the pool
\* at most once and its function is invoked at most once.
C3_OneShotSubmittedOnce ==
    \A id \in TaskIds :
        (sinfo[id].mode = "ONE_TIME" /\ sinfo[id].thrown = 0) =>
            /\ sinfo[id].submitted <= 1
            /\ sinfo[id].invoked <= 1

\* C16: a OneShot task whose function throws is submitted to the pool only
\* once: while every run of it so far has thrown, it has been dispatched at
\* most once.
C16_ThrowingOneShotRunOnce ==
    \A id \in TaskIds :
        (/\ sinfo[id].mode = "ONE_TIME"
         /\ sinfo[id].thrown >= 1
         /\ sinfo[id].invoked = sinfo[id].thrown) =>
            sinfo[id].submitted <= 1

\* C17, a step of the dispatcher or of a closure: the scan that evaluates the
\* condition of a ready Conditional task, and the closure that ends a run of
\* its function, leave the task's next_run one check_interval after now.
C17_Step ==
    \A s \in Slots :
        (stasks[s].mode = "CONDITIONAL" /\ stasks[s].interval > 0 /\ s <= Len(stasks')) =>
            /\ (dpc = "scan" /\ dpc' = "exec" /\ is_ready(stasks[s])) =>
                   stasks'[s].next_run = cnow + stasks[s].interval
            /\ (stasks[s].running /\ ~stasks'[s].running) =>
                   stasks'[s].next_run = cnow + stasks[s].interval

\* C17: the condition of a Conditional task is evaluated once per
\* check_interval: an evaluation and a run both advance next_run.
C17_ConditionalOncePerInterval == [][C17_Step]_vars

\* the closures of slot s that are queued or held by a worker
InFlightClosures(s) ==
    Cardinality({i \in 1..Len(tasks) : tasks[i] = Closure(s)})
    + Cardinality({w \in Workers : wtask[w] = Closure(s)})

\* C18: a Conditional task whose condition is always false is never
\* submitted and its function never run: no closure of it exists, its
\* running flag is never set and its executions and failures stay 0.
C18_FalseConditionNeverRuns ==
    \A s \in Slots :
        stasks[s].cond = "false" =>
            /\ sinfo[stasks[s].id].submitted = 0
            /\ sinfo[stasks[s].id].invoked = 0
            /\ stasks[s].executions = 0
            /\ stasks[s].failures = 0
            /\ ~stasks[s].running
            /\ InFlightClosures(s) = 0

\* the dispatcher has gone around its loop and dispatched another task twice
\* while a task whose condition is false has been due since the start
C18_Witness ==
    \E s, o \in Slots :
        /\ stasks[s].cond = "false"
        /\ stasks[s].next_run = 0
        /\ stasks[o].cond = "true"
        /\ sinfo[stasks[o].id].submitted = MaxDispatches
        /\ stasks[o].executions >= 1
        /\ cnow = MaxSchedTime
        /\ dpc = "wait"

\* C15: a scheduled task never overlaps itself: for no task of tasks_ are two
\* closures queued or executing in the pool at the same time.
C15_NoSelfOverlap ==
    \A s \in Slots : InFlightClosures(s) <= 1

\* C37: every closure works on the task it was submitted for, and that task
\* is in tasks_ while the closure runs: no closure finds the element it
\* refers to destroyed, and no task's function is invoked more often than
\* closures were submitted for that task (a closure that finds another task
\* in its element invokes that task's function instead of its own).
C37_ClosureKeepsItsTask ==
    /\ ~crashed
    /\ \A id \in TaskIds : sinfo[id].invoked <= sinfo[id].submitted

\* std::vector<TaskStats> get_task_stats(): the ids of the tasks it reports
get_task_stats == {stasks[s].id : s \in Slots}

\* what cancel_task() returns and does to the task set
C40_CancelCallStep ==
    kcall' # kcall =>
        LET id == kcall'.id IN
        /\ kcall'.res = (id \in get_task_stats)
        /\ kcall'.res =>
              /\ stasks' = SelectSeq(stasks, LAMBDA t : t.id # id)
              /\ id \notin get_task_stats'
        /\ ~kcall'.res => UNCHANGED <<poolVars, schedVars, sresidue>>

\* the function of a task whose cancel_task() returned true is not started
C40_NotStartedStep ==
    \A id \in kcall.cancelled : sinfo'[id].invoked = sinfo[id].invoked

\* C40: cancel_task(id) returns true exactly when a task with that id is in
\* the task set, and then removes it; after it returned true the function of
\* the task is never started again and get_task_stats() no longer reports the
\* task; for an unknown or already cancelled id it returns false and changes
\* nothing.
C40_CancelTask ==
    [][/\ C40_CancelCallStep
       /\ C40_NotStartedStep
       /\ \A id \in kcall.cancelled : id \notin get_task_stats']_vars

\* the part of C40 about the call itself and the task set
C40_CancelReturns ==
    [][/\ C40_CancelCallStep
       /\ \A id \in kcall.cancelled : id \notin get_task_stats']_vars

\* C39: whenever no enable_tracing() / disable_tracing() call is in progress,
\* tracing_enabled is true exactly when both publish indirections select the
\* traced implementation and false exactly when both select the fast one,
\* also after calls from different threads that overlapped.
C39_TracingAgrees ==
    NoToggleInProgress =>
        /\ tracing_enabled = (bimpl = "traced" /\ pimpl = "traced")
        /\ (~tracing_enabled) = (bimpl = "fast" /\ pimpl = "fast")

\* the same of the calls made by one thread, one after the other
C39_TracingAgreesSequential ==
    tpc = "idle" =>
        /\ tracing_enabled = (bimpl = "traced" /\ pimpl = "traced")
        /\ (~tracing_enabled) = (bimpl = "fast" /\ pimpl = "fast")

\* the dispatcher is inside execute_task() for slot s, between
\* running.store(true) and the return of submit
Submitting(s) == dpc \in {"submit", "push"} /\ dready # <<>> /\ Head(dready) = s

\* C38: the running flag of a task is true only while the dispatcher is
\* handing a closure of it to the pool or such a closure is queued or
\* executing; a submit the pool refuses does not leave the task marked
\* running.
C38_RunningMeansInFlight ==
    \A s \in Slots :
        stasks[s].running => (Submitting(s) \/ InFlightClosures(s) >= 1)

\* C19, the step that hands a closure to the pool: the task it is for is enabled
C19_SubmitStep ==
    \A id \in TaskIds :
        sinfo'[id].submitted = sinfo[id].submitted + 1 =>
            \E s \in Slots : stasks[s].id = id /\ stasks[s].enabled

\* C19, the step of enable_task / disable_task: nothing of the task but its
\* enabled flag changes, and a task that is enabled when it is due and not
\* running is one the next scan finds ready.
C19_ToggleStep ==
    \A s \in Slots :
        (/\ Len(stasks') = Len(stasks)
         /\ stasks'[s].enabled # stasks[s].enabled) =>
            /\ stasks'[s] = [stasks[s] EXCEPT !.enabled = ~stasks[s].enabled]
            /\ (stasks'[s].enabled /\ stasks[s].next_run <= cnow /\ ~stasks[s].running)
                   => should_execute(stasks'[s])

\* C19: while a task is disabled the dispatcher never submits it; disable_task
\* and enable_task leave its executions, failures and next_run unchanged;
\* after enable_task it is ready for dispatch once next_run <= now.
C19_DisabledNeverSubmitted == [][C19_SubmitStep /\ C19_ToggleStep]_vars

\* C20: a task that was added or enabled while the dispatcher waits ends the
\* wait: whenever a task is due (enabled, next_run reached, not running) a
\* waiting dispatcher can leave its wait and scan.
C20_MutationEndsWait ==
    (dpc = "wait" /\ \E s \in Slots : is_ready(stasks[s])) => ENABLED D_Wait

-----------------------------------------------------------------------------
(* Properties of ServiceHost::shutdown *)

\* the steps of shutdown() in the order of the code
ShutdownSequence == <<"permanent", "watch", "pool", "bus">>

\* what the steps of shutdown() leave behind
PermanentTasksStopped ==
    /\ ~perm_running
    /\ perm_id = 0
    /\ \A s \in Slots : stasks[s].id # PermanentId

PoolDrained ==
    /\ done
    /\ tasks = <<>>
    /\ \A w \in Workers : wpc[w] = "exited"

DispatcherStopped == ~srunning /\ dpc \in {"off", "stopped"}

BusClosed == conn = "closed"

\* C6: when shutdown(), called on a running service, has returned, running is
\* false, the permanent task is stopped and cancelled, the watcher is
\* stopped, the pool is drained, the scheduler's dispatcher is stopped and
\* the bus is closed, with the permanent tasks stopped before the pool is
\* drained and the bus closed last.
C6_ShutdownStopsEverything ==
    (hpc = "returned" /\ ~hsig) =>
        /\ ~hrunning
        /\ PermanentTasksStopped
        /\ watch # "watching"
        /\ PoolDrained
        /\ DispatcherStopped
        /\ BusClosed
        /\ hsteps = ShutdownSequence

\* C7: when the signal handler has stopped the service and the shutdown()
\* the main loop then calls has returned, the permanent tasks are stopped,
\* the pool is drained and the bus is closed.
C7_SignalThenShutdownRunsSequence ==
    (hpc = "returned" /\ hsig) =>
        /\ PermanentTasksStopped
        /\ PoolDrained
        /\ BusClosed

-----------------------------------------------------------------------------
(* Properties of publishing *)

InFlight == {p \in Publishers : ppc[p] # "idle"}

\* C8: every publish call executes one of the two implementations, once; a
\* call issued, and reading its pointer, while no toggle is in progress
\* executes the traced implementation if the last toggle that returned was
\* enable_tracing() and the fast one if it was disable_tracing() (or if
\* there was none), whatever toggles and publishes came before.
C8_PublishFollowsLastToggle ==
    /\ \A p \in Publishers :
        ppc[p] = "run" =>
            /\ pcall[p].impl \in {"fast", "traced"}
            /\ pcall[p].quiet =>
                   pcall[p].impl = (IF pcall[p].after = "enable" THEN "traced" ELSE "fast")
    /\ ran["fast"] + ran["traced"] + Cardinality(InFlight) = issued

\* after a publish on the fast path and two toggles, a publish issued after
\* enable_tracing() returned is about to run the traced implementation
C8_Witness ==
    \E p \in Publishers :
        /\ ppc[p] = "run"
        /\ pcall[p].quiet
        /\ pcall[p].after = "enable"
        /\ pcall[p].impl = "traced"
        /\ tpc = "idle"
        /\ tstarted = MaxToggles
        /\ ran["fast"] >= 1

\* C9: every service registered for (T, Broadcast) has received every
\* broadcast of T exactly once, every service registered for
\* (T, PointToPoint) has received exactly the point-to-point messages of
\* type T sent to its uid, and no handler has received anything else.
C9_PublishReachesSubscribers ==
    \A svc \in Services, t \in Types :
        recv[svc][t] = (IF reg[svc][t] = "Broadcast" THEN sent[<<"broadcast", t, 0>>]
                        ELSE IF reg[svc][t] = "PointToPoint" THEN sent[<<"p2p", t, svc>>]
                        ELSE 0)

-----------------------------------------------------------------------------
(* Properties of ServiceScheduler::stop *)

\* C21, in every state: once a stop() that found the scheduler running has
\* returned, the dispatcher has left its loop, every task is disabled and the
\* dispatcher holds nothing it still means to submit
C21_Stopped ==
    (xpc = "returned" /\ xres = "stopped") =>
        /\ dpc = "stopped"
        /\ ~srunning
        /\ \A s \in Slots : ~stasks[s].enabled

\* C21, in every step after such a return: no closure is added to the queue
\* of the pool and no submission is counted
C21_NoSubmitStep ==
    (xpc = "returned" /\ xres = "stopped") =>
        /\ \A id \in TaskIds : sinfo'[id].submitted = sinfo[id].submitted
        /\ Len(tasks') <= Len(tasks)

\* C21, the step of a stop() on a scheduler that is not running: it returns
\* at once and leaves the scheduler and the pool as they were
C21_NoOpStep ==
    (xcalls' = xcalls + 1 /\ ~srunning) =>
        /\ xpc' = "returned"
        /\ UNCHANGED <<stasks, srunning, dpc, dready, dwake, sinfo>>
        /\ UNCHANGED poolVars

\* C21: stop() always returns; after it the dispatcher thread has exited,
\* nothing more is submitted to the pool and every task is disabled; the
\* closures submitted before still run to their end in the pool; stop() on a
\* scheduler that is not running changes nothing.
C21_StopTerminatesAndQuiesces ==
    /\ []C21_Stopped
    /\ [][C21_NoSubmitStep]_vars
    /\ [][C21_NoOpStep]_vars
    /\ (xpc = "join") ~> (xpc = "returned" /\ xres = "stopped")
    /\ \A s \in TaskIds : (InFlightClosures(s) > 0) ~> (InFlightClosures(s) = 0)

\* stop() has returned from a running scheduler while a closure that was
\* submitted before was still in the pool, and that closure has since run
C21_Witness ==
    /\ xpc = "returned" /\ xres = "stopped"
    /\ \E id \in TaskIds : sinfo[id].submitted = 1 /\ sinfo[id].invoked = 1
    /\ \E s \in Slots : stasks[s].executions + stasks[s].failures = 1 /\ ~stasks[s].enabled
    /\ xcalls = 2

-----------------------------------------------------------------------------
(* Properties of the message handlers *)

\* the tasks of call c that are queued or held by a worker
InFlightOf(c) ==
    Cardinality({i \in 1..Len(tasks) : tasks[i].kind \in {"receive", "handle"} /\ tasks[i].id = c})
    + Cardinality({w \in Workers : wtask[w].kind \in {"receive", "handle"} /\ wtask[w].id = c})

\* receive_message() has returned for call c and no task of it is left
Settled(c) == rcall[c].pc = "returned" /\ InFlightOf(c) = 0

\* C22: a message whose payload does not decode never reaches the user's
\* handler and nothing more is submitted for it; a message that decodes, once
\* its tasks have run, has invoked the handler exactly once.
C22_DecodeGuardsHandler ==
    \A c \in Receives :
        /\ rcall[c].calls <= 1
        /\ rcall[c].payload = "garbage" =>
              /\ rcall[c].calls = 0
              /\ rcall[c].inner = "none"
              /\ rcall[c].decoded # "ok"
              /\ HandlerTask(c) \notin {tasks[i] : i \in 1..Len(tasks)}
              /\ \A w \in Workers : wtask[w] # HandlerTask(c)
        /\ (rcall[c].payload = "valid" /\ rcall[c].h # 0 /\ Settled(c)) =>
              rcall[c].calls = 1

\* one message was dropped by the decoder and one has reached the handler
C22_Witness ==
    \E c, d \in Receives :
        /\ rcall[c].decoded = "failed" /\ Settled(c) /\ rcall[c].calls = 0
        /\ rcall[d].decoded = "ok" /\ Settled(d) /\ rcall[d].calls = 1

\* C23: a receive_message() that is called while running_ is false submits
\* nothing to the pool and starts no handler invocation.
C23_NoWorkAfterStop ==
    \A c \in Receives :
        rcall[c].late =>
            /\ rcall[c].outer # "true"
            /\ InFlightOf(c) = 0
            /\ rcall[c].calls = 0

\* C24: when shutdown() has returned from the whole sequence, every message
\* whose task the pool accepted has failed to decode or has had its handler
\* invoked, and returned, once.
C24_AcceptedHandledByShutdown ==
    (hpc = "returned" /\ \E i \in 1..Len(hsteps) : hsteps[i] = "pool") =>
        \A c \in Receives :
            rcall[c].outer = "true" =>
                rcall[c].decoded = "failed" \/ rcall[c].calls = 1

\* the receive_message() calls the bus made for message b
DeliveriesOf(b) == {c \in Receives : rcall[c].msg = b}

\* C25: however often a handler is registered for the type, handlers_ holds
\* the latest registration, and a message that is published after it and
\* decodes invokes that handler exactly once: when all its deliveries have
\* been handled, one handler invocation was made for it, by the latest
\* registration.
C25_ReRegistrationIsIdempotent ==
    /\ regs > 0 => handlers = regs
    /\ \A b \in published :
          (/\ DeliveriesOf(b) # {}
           /\ \A c \in DeliveriesOf(b) :
                 Settled(c) /\ rcall[c].payload = "valid" /\ rcall[c].h = regs) =>
              Cardinality({c \in DeliveriesOf(b) : rcall[c].calls > 0}) = 1

-----------------------------------------------------------------------------
(* Properties of ServiceHost::shutdown *)

\* C26: however the calls of shutdown() follow or overlap each other, the
\* pool is shut down, the JetStream context destroyed and the connection
\* closed and destroyed at most once each, and the process survives.
C26_TeardownAtMostOnce ==
    /\ \A step \in Teardowns : teardowns[step] <= 1
    /\ ~crashed

\* C27: when shutdown_with_timeout(T) on a running service has returned from
\* joining its background thread, that thread has executed the shutdown
\* sequence: permanent tasks stopped, pool shut down, connection closed.
C27_TimeoutRunsSequence ==
    (ypc = "returned" /\ yres = "joined") =>
        /\ ~perm_running
        /\ done /\ spc = "returned"
        /\ conn = "closed"

-----------------------------------------------------------------------------
(* Properties of startup and of the permanent tasks *)

\* C28: a startup that has failed leaves is_running() false, a failure is
\* reported to the caller and not by ending the process, and running_ is
\* true only once a startup has passed its health check.
C28_RunningOnlyAfterStartup ==
    /\ ures \in {"error", "exit"} => ~hrunning
    /\ ures # "exit"
    /\ hrunning => ures = "ok"

\* the tasks named permanent_maintenance that are registered in the scheduler
PermanentTasks == {s \in Slots : stasks[s].mode = "RECURRING"}

\* C29: at most one permanent_maintenance task is registered, and while no
\* StartPermanentTasks() or StopPermanentTasks() call is in progress the flag
\* is true exactly when the task is registered.
C29_OnePermanentTask ==
    /\ Cardinality(PermanentTasks) <= 1
    /\ (\A t \in PermanentCallers : vpc[t] = "idle") =>
          (perm_running <=> PermanentTasks # {})

-----------------------------------------------------------------------------
(* Properties of the cache registry *)

\* the number of caches the registry holds
RegisteredCaches(registry) ==
    Cardinality({n \in CacheNames : registry[n].inst # 0})

\* C31: a typed lookup returns the registered handle when the name is
\* registered with exactly the types asked for, none when the name is not
\* registered, and an error when it is registered with other types.
C31_TypedLookup ==
    clook.name # 0 =>
        IF clook.registered = "none" THEN clook.res = "none"
        ELSE IF clook.registered = clook.type
             THEN clook.res = "handle" /\ clook.inst = caches[clook.name].inst
             ELSE clook.res = "error"

\* a lookup never hands out a cache of other types than asked for, and what
\* it hands out is the registered instance
C31_LookupMatchesTypes ==
    (clook.name # 0 /\ clook.res = "handle") =>
        /\ caches[clook.name].type = clook.type
        /\ caches[clook.name].inst = clook.inst

\* C32: the evictions a cache reports are the entries it removed because it
\* was full; entries removed because they had expired are not among them.
\* For a cache handed out by the registry:
C32_EvictionsAreCapacityRemovals ==
    get_stats_evictions = ci.removed_capacity

\* C30, the step of a create_cache() call under a name that is registered:
\* with the same key and value types it returns a handle to the registered
\* instance, with other types it fails; either way the registry, and with it
\* the contents, capacity and TTL of every cache, are as they were
C30_CreateStep ==
    (ccalls' = ccalls + 1 /\ clast'.existed) =>
        /\ caches' = caches
        /\ created' = created
        /\ RegisteredCaches(caches') = RegisteredCaches(caches)
        /\ IF caches[clast'.name].type = clast'.type
           THEN clast'.ok /\ clast'.inst = caches[clast'.name].inst
           ELSE ~clast'.ok

\* C30: creating a cache under an existing name returns the existing instance
\* unchanged when the types match and fails, changing nothing, when they do
\* not.
C30_CreateIsIdempotentOnName == [][C30_CreateStep]_vars

\* a cache that holds entries has been created again under its name with the
\* same types, and the call has returned the one instance ever constructed
C30_Witness ==
    /\ clast.existed /\ clast.ok
    /\ caches[clast.name].items # {}
    /\ caches[clast.name].inst = clast.inst
    /\ ccalls = 3 /\ created = 1

====
